---- MODULE Spec2Model ----
(***************************************************************************)
(* The issue-reconciliation and URL-attribution engine of the SEO audit    *)
(* dashboard: category expansion (utils/data_loader.py), URL attribution   *)
(* and category statistics (main.py), the per-category display pass        *)
(* (utils/ui/semrush_tab.py), the filtered issue-by-URL-count aggregation  *)
(* (utils/visualizations.py), the three loaders and the gating of a run    *)
(* on them (utils/data_loader.py, main.py), the matched-issue comparison   *)
(* (utils/ui/comparison_tab.py), the crawl launcher with its status file   *)
(* (utils/sf_crawler.py), the operator's session around a crawl with its   *)
(* launcher threads, and the filters of the tabs (utils/ui/semrush_tab.py, *)
(* utils/ui/sf_tab.py, main.py).                                           *)
(*                                                                         *)
(* A Python string is a sequence of one-character strings, so that split,  *)
(* strip, lower and the regular expression \s+ are computed character by   *)
(* character.  A data frame is a sequence of rows; a mapping row is a      *)
(* record [name, type, category] of the three columns the engine reads     *)
(* ('Issue Name Contains - SemRush', 'Issue Type - SemRush',               *)
(* 'Issue category - SemRush').                                            *)
(***************************************************************************)
EXTENDS Integers, Sequences, FiniteSets, TLC

VARIABLES
    pc,                 \* position of the operation under study: "start" | "done"
    df,                 \* argument of process_semrush_categories
    expanded_rows,      \* its result
    issue_name,         \* argument of get_affected_urls_by_issue
    semrush_data,       \* the source-tool audit table
    affected_urls,      \* result of the latest get_affected_urls_by_issue call
    previous_urls,      \* result of the call before the latest one
    category_issues,    \* argument of get_category_stats (one category slice)
    stats,              \* its result: the three bucket totals
    has_urls,           \* its result: the "has any affected URL" flag
    filtered_semrush,   \* argument of display_semrush_issues
    rendered,           \* what one display pass showed, one entry per category
    mapping_data,       \* argument of create_issues_stats_chart
    filtered_types,     \* its issue type filter
    filtered_categories,\* its category filter
    filtered_mapping,   \* the mapping rows that survive the two filters
    issue_stats,        \* the records the chart is drawn from
    fig,                \* what the chart call returned: None or the bars of a figure
    MAPPING_FILE,       \* the mapping file on disk
    semrush_file,       \* the uploaded source-tool export
    sf_file,            \* the uploaded target-tool export
    mapping_table,      \* what load_mapping_data returned
    semrush_table,      \* what load_semrush_data returned
    sf_issues,          \* what load_sf_issues returned
    reported,           \* the st.error reports of the loaders
    escaped,            \* the exception that left a loader, "none" if none did
    steps,              \* the reconciliation steps one run of main executed
    matched_issues,     \* result of get_matched_issues: positions of the rows
    metrics,            \* the four summary counts of the comparison
    derived,            \* the view the latest reconciliation operation derived
    crawl_id,           \* argument of run_sf_with_status
    output_folder,      \* argument of run_sf_with_status
    status_file,        \* the status file: <<>> if absent, else <<its record>>
    writes,             \* the records update_status wrote, in order
    process,            \* the external process: its state, exit code and output
    raised,             \* the exception raised in the launcher, "none" if none
    session,            \* the operator's session: position of the script, what it shows
    threads,            \* the launcher threads the session started, in order
    disk,               \* the status file as the session and the threads share it
    config_folder,      \* the file names in the crawler's configuration folder
    session_state       \* st.session_state: the show_filters flag of the Show Filters box

vars == <<pc, df, expanded_rows, issue_name, semrush_data, affected_urls,
          previous_urls, category_issues, stats, has_urls, filtered_semrush,
          rendered, mapping_data, filtered_types, filtered_categories,
          filtered_mapping, issue_stats, fig, MAPPING_FILE, semrush_file,
          sf_file, mapping_table, semrush_table, sf_issues, reported, escaped,
          steps, matched_issues, metrics, derived, crawl_id, output_folder,
          status_file, writes, process, raised, session, threads, disk,
          config_folder, session_state>>

----------------------------------------------------------------------------
(* Bounds of the explored inputs *)

\* rows of a mapping table / category slice
MaxRows == 2
\* rows (pages) of the source audit table
MaxUrls == 2
\* pieces a table's category cells are built from, summed over the table
MaxPieces == 4

----------------------------------------------------------------------------
(* Strings *)

\* a missing value (NaN / None); no string has a multi-character element
Null == <<"<NaN>">>

NA == <<"N", "A">>
Uncategorized == <<"U", "n", "c", "a", "t", "e", "g", "o", "r", "i", "z", "e", "d">>
sError == <<"e", "r", "r", "o", "r">>
sWarning == <<"w", "a", "r", "n", "i", "n", "g">>

\* what str.strip() removes and the regular expression \s matches
WhiteSpace == {" ", "\t", "\n"}

UpperCase == <<"A", "B", "C", "D", "E", "F", "G", "H", "I", "J", "K", "L", "M",
               "N", "O", "P", "Q", "R", "S", "T", "U", "V", "W", "X", "Y", "Z">>
LowerCase == <<"a", "b", "c", "d", "e", "f", "g", "h", "i", "j", "k", "l", "m",
               "n", "o", "p", "q", "r", "s", "t", "u", "v", "w", "x", "y", "z">>

\* the characters of the model in code point order
CodePoints == <<"\t", "\n", " ", ",">> \o UpperCase \o LowerCase

Ord(c) == CHOOSE i \in 1..Len(CodePoints) : CodePoints[i] = c

\* pd.notna / pd.isna
notna(v) == v # Null

LowerChar(c) ==
    IF \E i \in 1..Len(UpperCase) : UpperCase[i] = c
    THEN LowerCase[CHOOSE i \in 1..Len(UpperCase) : UpperCase[i] = c]
    ELSE c

\* str.lower()
lower(s) == [i \in 1..Len(s) |-> LowerChar(s[i])]

\* a strip that forgets the trailing white space (str.lstrip)
RECURSIVE lstrip(_)
lstrip(s) ==
    IF s = <<>> THEN s
    ELSE IF Head(s) \in WhiteSpace THEN lstrip(Tail(s))
    ELSE s

\* str.strip(): drop leading, then trailing white space
RECURSIVE strip(_)
strip(s) ==
    IF s = <<>> THEN s
    ELSE IF Head(s) \in WhiteSpace THEN strip(Tail(s))
    ELSE IF s[Len(s)] \in WhiteSpace THEN strip(SubSeq(s, 1, Len(s) - 1))
    ELSE s

\* str.split(','): scan left to right, cutting at every comma
RECURSIVE SplitFrom(_, _, _, _)
SplitFrom(s, i, cur, out) ==
    IF i > Len(s) THEN Append(out, cur)
    ELSE IF s[i] = "," THEN SplitFrom(s, i + 1, <<>>, Append(out, cur))
    ELSE SplitFrom(s, i + 1, Append(cur, s[i]), out)

split(s) == SplitFrom(s, 1, <<>>, <<>>)

\* re.sub(r'\s+', '', s)
RemoveWhiteSpace(s) == SelectSeq(s, LAMBDA c : c \notin WhiteSpace)

\* sub in s
RECURSIVE Contains(_, _)
Contains(sub, s) ==
    IF Len(sub) > Len(s) THEN FALSE
    ELSE IF SubSeq(s, 1, Len(sub)) = sub THEN TRUE
    ELSE Contains(sub, Tail(s))

\* s < t in Python's string order
RECURSIVE StrLess(_, _)
StrLess(s, t) ==
    IF t = <<>> THEN FALSE
    ELSE IF s = <<>> THEN TRUE
    ELSE IF Head(s) # Head(t) THEN Ord(Head(s)) < Ord(Head(t))
    ELSE StrLess(Tail(s), Tail(t))

\* Series.unique(): the distinct values in order of first appearance
RECURSIVE unique(_)
unique(values) ==
    IF values = <<>> THEN <<>>
    ELSE LET front == unique(SubSeq(values, 1, Len(values) - 1))
             last  == values[Len(values)]
         IN  IF \E i \in 1..Len(front) : front[i] = last THEN front
             ELSE Append(front, last)

\* a traversal that forgets to sort
unsorted(values) == values

\* sorted(values): insertion sort in Python's string order
RECURSIVE sorted(_)
sorted(values) ==
    IF values = <<>> THEN <<>>
    ELSE LET rest == sorted(Tail(values))
             k    == Cardinality({i \in 1..Len(rest) : StrLess(rest[i], Head(values))})
         IN  SubSeq(rest, 1, k) \o <<Head(values)>> \o SubSeq(rest, k + 1, Len(rest))

RECURSIVE Flatten(_)
Flatten(seqs) == IF seqs = <<>> THEN <<>> ELSE Head(seqs) \o Flatten(Tail(seqs))

----------------------------------------------------------------------------
(* Category expansion: utils/data_loader.py *)

\* the categories of one cell: [cat.strip() for cat in str(cell).split(',')]
CellCategories(cell) ==
    LET parts == split(cell) IN [i \in 1..Len(parts) |-> strip(parts[i])]

\* the rows one mapping row expands to (body of the iterrows loop)
ExpandRow(row) ==
    IF notna(row.category) /\ row.category # NA
    THEN LET kept == SelectSeq(CellCategories(row.category),
                               LAMBDA category : category # <<>> /\ category # Uncategorized)
         IN  [i \in 1..Len(kept) |-> [row EXCEPT !.category = kept[i]]]
    ELSE <<>>

process_semrush_categories(frame) ==
    Flatten([i \in 1..Len(frame) |-> ExpandRow(frame[i])])

----------------------------------------------------------------------------
(* Inputs of the category expansion *)

\* the pieces category cells are built from: the two sentinels, a label
\* character, a blank and the delimiter
Pieces == {Uncategorized, NA, <<"L">>, <<" ">>, <<",">>}

\* the concatenation of the pieces ps[a + 1], ..., ps[b]
RECURSIVE Join(_, _, _)
Join(ps, a, b) == IF a >= b THEN <<>> ELSE ps[a + 1] \o Join(ps, a + 1, b)

\* the ways to cut k pieces into n consecutive cells: cell i is made of the
\* pieces cut[i - 1] + 1 .. cut[i]
Cuts(n, k) ==
    {cut \in [0..n -> 0..k] :
        /\ cut[0] = 0
        /\ cut[n] = (IF n = 0 THEN 0 ELSE k)
        /\ \A i \in 1..n : cut[i - 1] <= cut[i]}

\* the i-th row's issue name: "x", "xx", ...
NameOf(i) == [j \in 1..i |-> "x"]

TypeError == <<"E", "r", "r", "o", "r">>
TypeWarning == <<"W", "a", "r", "n", "i", "n", "g">>
TypeNotice == <<"N", "o", "t", "i", "c", "e">>

EmptyAudit == [columns |-> <<>>, url |-> <<>>, data |-> <<>>]
NoFilter == [given |-> FALSE, values |-> {}]
NoStats == [Issues |-> 0, Warnings |-> 0, Notices |-> 0]
Unset == [returned |-> "unset", bars |-> <<>>]

IdleExpand == df = <<>> /\ expanded_rows = <<>>
IdleUrls == issue_name = <<>> /\ affected_urls = <<>> /\ previous_urls = <<>>
IdleStats == category_issues = <<>> /\ stats = NoStats /\ has_urls = FALSE
IdleDisplay == filtered_semrush = <<>> /\ rendered = <<>>
IdleChart ==
    /\ mapping_data = <<>>
    /\ filtered_types = NoFilter
    /\ filtered_categories = NoFilter
    /\ filtered_mapping = <<>>
    /\ issue_stats = <<>>
    /\ fig = Unset

\* no file, nothing loaded, nothing compared
NoFile == [present |-> FALSE, parses |-> FALSE, columns |-> {}, rows |-> <<>>]
NotLoaded == [returned |-> "unset", columns |-> {}, rows |-> <<>>]
NoMetrics == [total_mapped |-> 0, unique_semrush |-> 0, found_in_both |-> 0,
              unique_sf |-> 0]

IdleLoad ==
    /\ MAPPING_FILE = NoFile
    /\ semrush_file = NoFile
    /\ sf_file = NoFile
    /\ mapping_table = NotLoaded
    /\ semrush_table = NotLoaded
    /\ sf_issues = NotLoaded
    /\ reported = <<>>
    /\ escaped = "none"
    /\ steps = <<>>
    /\ matched_issues = <<>>
    /\ metrics = NoMetrics

\* no operation derived a view, no crawl was launched
NoView == [operation |-> "none", view |-> <<>>]
NoProcess == [state |-> "not started", returncode |-> 0, stdout |-> 0, stderr |-> 0,
              printed |-> 0, read |-> 0, stderr_printed |-> 0, stderr_read |-> 0]

\* no script run, no thread, no status file
NoSession == [pc |-> "none", run |-> FALSE, retry |-> FALSE, shown |-> "nothing"]
NoStatusFile == [exists |-> FALSE, text |-> <<>>]

IdleSession ==
    /\ session = NoSession
    /\ threads = <<>>
    /\ disk = NoStatusFile
    /\ config_folder = {}
    /\ session_state = [show_filters |-> TRUE]

IdleCrawl ==
    /\ IdleSession
    /\ derived = NoView
    /\ crawl_id = ""
    /\ output_folder = ""
    /\ status_file = <<>>
    /\ writes = <<>>
    /\ process = NoProcess
    /\ raised = "none"

expandVars == <<df, expanded_rows>>
urlVars == <<issue_name, affected_urls, previous_urls>>
statsVars == <<category_issues, stats, has_urls>>
displayVars == <<filtered_semrush, rendered>>
chartVars == <<mapping_data, filtered_types, filtered_categories,
               filtered_mapping, issue_stats, fig>>
sessionVars == <<session, threads, disk, config_folder, session_state>>
crawlVars == <<derived, crawl_id, output_folder, status_file, writes, process, raised,
               sessionVars>>
loadVars == <<MAPPING_FILE, semrush_file, sf_file, mapping_table, semrush_table,
              sf_issues, reported, escaped, steps, matched_issues, metrics>>

----------------------------------------------------------------------------
(* Specification of the category expansion *)

\* a table of at most MaxRows rows whose cells are cut from at most MaxPieces
\* pieces; a cell made of no piece is the empty string or missing
InitExpand ==
    /\ pc = "start"
    /\ \E n \in 0..MaxRows : \E k \in 0..MaxPieces : \E cut \in Cuts(n, k) :
       \E missing \in [{i \in 1..n : cut[i - 1] = cut[i]} -> BOOLEAN] :
       \E ps \in [1..k -> Pieces] :
          df = [i \in 1..n |->
                  [name |-> NameOf(i), type |-> TypeError,
                   category |-> IF cut[i - 1] = cut[i] /\ missing[i] THEN Null
                                ELSE Join(ps, cut[i - 1], cut[i])]]
    /\ expanded_rows = <<>>
    /\ semrush_data = EmptyAudit
    /\ IdleUrls /\ IdleStats /\ IdleDisplay /\ IdleChart /\ IdleLoad /\ IdleCrawl

\* one call process_semrush_categories(df)
ExpandCategories ==
    /\ pc = "start"
    /\ pc' = "done"
    /\ expanded_rows' = process_semrush_categories(df)
    /\ UNCHANGED <<df, semrush_data, urlVars, statsVars, displayVars, chartVars, loadVars, crawlVars>>

NextExpand == ExpandCategories

SpecExpand == InitExpand /\ [][NextExpand]_vars

----------------------------------------------------------------------------
(* What the claims expect of a category cell, stated on positions *)

Min(S) == CHOOSE x \in S : \A y \in S : x <= y
Max(S) == CHOOSE x \in S : \A y \in S : y <= x

\* the k-th smallest element of a set of numbers
Nth(S, k) == CHOOSE x \in S : Cardinality({y \in S : y < x}) = k - 1

Commas(s) == {i \in 1..Len(s) : s[i] = ","}

\* the k-th comma-separated token of s, k in 1..(number of commas + 1)
Token(s, k) ==
    LET first == IF k = 1 THEN 1 ELSE Nth(Commas(s), k - 1) + 1
        last  == IF k = Cardinality(Commas(s)) + 1 THEN Len(s)
                 ELSE Nth(Commas(s), k) - 1
    IN  SubSeq(s, first, last)

\* t without its surrounding white space
Trimmed(t) ==
    LET ink == {i \in 1..Len(t) : t[i] \notin WhiteSpace}
    IN  IF ink = {} THEN <<>> ELSE SubSeq(t, Min(ink), Max(ink))

\* the tokens of s that are kept, left to right
KeptTokens(s) ==
    LET keep == {k \in 1..(Cardinality(Commas(s)) + 1) :
                    /\ Trimmed(Token(s, k)) # <<>>
                    /\ Trimmed(Token(s, k)) # Uncategorized}
    IN  [j \in 1..Cardinality(keep) |-> Trimmed(Token(s, Nth(keep, j)))]

\* one row per kept token, equal to the source row but for the category
RowsPerToken(row) ==
    LET kept == IF row.category = Null THEN <<>> ELSE KeptTokens(row.category)
    IN  [j \in 1..Len(kept) |->
            [name |-> row.name, type |-> row.type, category |-> kept[j]]]

NoSentinelCategory ==
    \A i \in 1..Len(expanded_rows) :
        /\ expanded_rows[i].category # <<>>
        /\ expanded_rows[i].category # Uncategorized

----------------------------------------------------------------------------
(* URL attribution: main.py, get_affected_urls_by_issue *)

(* The audit table is [columns, url, data]: the names of its issue columns  *)
(* in column order, the 'Page URL' value of every row (a page is            *)
(* identified by a number) and the cells of every row, one per column.      *)
(* A cell is the text read from the file.                                   *)

NaN == [nan |-> TRUE, val |-> 0]
Number(n) == [nan |-> FALSE, val |-> n]

\* pd.to_numeric(cell, errors='coerce') on the cell texts of the model
to_numeric(cell) ==
    CASE cell = "0" -> Number(0)
      [] cell = "1" -> Number(1)
      [] cell = "2" -> Number(2)
      [] cell = "-1" -> Number(-1)
      [] OTHER -> NaN

\* a comparison that flags every non-zero number
NotZero(x) == ~x.nan /\ x.val # 0

\* x > 0 of the mask; a comparison with NaN is False
GreaterThanZero(x) == ~x.nan /\ x.val > 0

\* the loop over semrush_data.columns with its break: the index of the first
\* column whose lower-cased name is the lower-cased issue name, 0 for None
RECURSIVE MatchingColumn(_, _, _)
MatchingColumn(name, columns, i) ==
    IF i > Len(columns) THEN 0
    ELSE IF lower(columns[i]) = lower(name) THEN i
    ELSE MatchingColumn(name, columns, i + 1)

\* semrush_data[mask]['Page URL'].tolist() for the mask of column m
MaskedUrls(data, m) ==
    LET rows == SelectSeq([r \in 1..Len(data.url) |-> r],
                          LAMBDA r : GreaterThanZero(to_numeric(data.data[r][m])))
    IN  [k \in 1..Len(rows) |-> data.url[rows[k]]]

get_affected_urls_by_issue(name, data) ==
    LET m == MatchingColumn(name, data.columns, 1)
    IN  IF m = 0 \/ data.columns[m] = <<>>    \* not matching_column
        THEN <<>>
        ELSE MaskedUrls(data, m)

----------------------------------------------------------------------------
(* Specification of the URL attribution *)

nAB == <<"A", "B">>
nab == <<"a", "b">>
nc == <<"c">>

IssueNames == {nAB, nab, nc}

\* the column lists of the explored audit tables: up to two distinct names
ColumnLists(names) ==
    {<<>>} \cup {<<c>> : c \in names}
           \cup {p \in {<<c, d>> : c \in names, d \in names} : p[1] # p[2]}

\* cell texts: zero, a positive and a negative number, a text
CellValues == {"0", "2", "-1", "abc"}

\* the audit tables with the given columns, n rows and cells drawn from values
AuditTables(columns, n, values) ==
    {[columns |-> columns, url |-> [r \in 1..n |-> r], data |-> d] :
        d \in [1..n -> [1..Len(columns) -> values]]}

InitUrls ==
    /\ pc = "start"
    /\ issue_name \in IssueNames
    /\ \E columns \in ColumnLists(IssueNames) : \E n \in 0..MaxUrls :
          semrush_data \in AuditTables(columns, n, CellValues)
    /\ affected_urls = <<>>
    /\ previous_urls = <<>>
    /\ IdleExpand /\ IdleStats /\ IdleDisplay /\ IdleChart /\ IdleLoad /\ IdleCrawl

\* one call get_affected_urls_by_issue(issue_name, semrush_data); a second
\* call on the same arguments may follow the first
GetAffectedUrls ==
    /\ pc \in {"start", "done"}
    /\ pc' = IF pc = "start" THEN "done" ELSE "repeated"
    /\ previous_urls' = affected_urls
    /\ affected_urls' = get_affected_urls_by_issue(issue_name, semrush_data)
    /\ UNCHANGED <<issue_name, semrush_data, expandVars, statsVars,
                   displayVars, chartVars, loadVars, crawlVars>>

NextUrls == GetAffectedUrls

SpecUrls == InitUrls /\ [][NextUrls]_vars

----------------------------------------------------------------------------
(* What the claims expect of the URL attribution, stated on sets *)

\* two characters are equal but for their case
SameLetter(c, d) ==
    c = d \/ \E k \in 1..Len(UpperCase) : {c, d} = {UpperCase[k], LowerCase[k]}

\* case-insensitive equality of two names
EqualIgnoringCase(s, t) ==
    Len(s) = Len(t) /\ \A i \in 1..Len(s) : SameLetter(s[i], t[i])

\* the columns whose name is the issue name under case-insensitive comparison
ColumnsNamed(name, data) ==
    {i \in 1..Len(data.columns) : EqualIgnoringCase(data.columns[i], name)}

\* the rows column m flags: the cell reads as a number strictly above zero
FlaggedRows(data, m) ==
    {r \in 1..Len(data.url) :
        /\ ~to_numeric(data.data[r][m]).nan
        /\ to_numeric(data.data[r][m]).val > 0}

\* the Page URL values of the rows the first matching column flags, in row order
AttributedUrls(name, data) ==
    IF ColumnsNamed(name, data) = {} THEN <<>>
    ELSE LET rows == FlaggedRows(data, Min(ColumnsNamed(name, data)))
         IN  [k \in 1..Cardinality(rows) |-> data.url[Nth(rows, k)]]

----------------------------------------------------------------------------
(* Category statistics: main.py, get_category_stats *)

\* a classification that compares the type as written, without lower()
BucketAsWritten(type) ==
    IF Contains(sError, type) THEN "Issues"
    ELSE IF Contains(sWarning, type) THEN "Warnings"
    ELSE "Notices"

\* the bucket of an issue type: 'error' in type.lower(), elif 'warning', else
Bucket(type) ==
    IF Contains(sError, lower(type)) THEN "Issues"
    ELSE IF Contains(sWarning, lower(type)) THEN "Warnings"
    ELSE "Notices"

\* a guard that never skips
NeverProcessed(name, processed_issues) == FALSE

\* issue_name in processed_issues
AlreadyProcessed(name, processed_issues) == name \in processed_issues

\* the loop over category_issues.iterrows() from row i on; acc holds the
\* locals stats, has_urls and processed_issues
RECURSIVE CategoryStatsFrom(_, _, _, _)
CategoryStatsFrom(rows, data, i, acc) ==
    IF i > Len(rows) THEN acc
    ELSE IF AlreadyProcessed(rows[i].name, acc.processed_issues)
         THEN CategoryStatsFrom(rows, data, i + 1, acc)
    ELSE LET urls == get_affected_urls_by_issue(rows[i].name, data)
             b    == Bucket(rows[i].type)
         IN  IF urls # <<>>
             THEN CategoryStatsFrom(rows, data, i + 1,
                      [stats |-> [acc.stats EXCEPT ![b] = @ + Len(urls)],
                       has_urls |-> TRUE,
                       processed_issues |-> acc.processed_issues \cup {rows[i].name}])
             ELSE CategoryStatsFrom(rows, data, i + 1, acc)

\* returns [stats, has_urls]
get_category_stats(rows, data) ==
    LET acc == CategoryStatsFrom(rows, data, 1,
                   [stats |-> NoStats, has_urls |-> FALSE, processed_issues |-> {}])
    IN  [stats |-> acc.stats, has_urls |-> acc.has_urls]

----------------------------------------------------------------------------
(* Specification of the category statistics *)

TypeBoth == TypeWarning \o <<" ", "E", "R", "R", "O", "R">>
IssueTypes == {TypeError, TypeWarning, TypeNotice, TypeBoth}

cLinks == <<"L">>
cCrawl == <<"C">>

\* cells of the flag columns: not flagged, flagged
FlagValues == {"0", "1"}

\* audit tables of MaxUrls pages with a column for "ab" alone, or for "ab" and "c"
FlagAudits ==
    AuditTables(<<nab>>, MaxUrls, FlagValues)
        \cup AuditTables(<<nab, nc>>, MaxUrls, FlagValues)

\* the sequences of at most n elements of S
SeqsUpTo(S, n) == UNION {[1..k -> S] : k \in 0..n}

InitStats ==
    /\ pc = "start"
    /\ category_issues \in
          SeqsUpTo([name : {nab, nc}, type : IssueTypes, category : {cLinks}], MaxRows)
    /\ semrush_data \in FlagAudits
    /\ stats = NoStats
    /\ has_urls = FALSE
    /\ IdleExpand /\ IdleUrls /\ IdleDisplay /\ IdleChart /\ IdleLoad /\ IdleCrawl

\* one call get_category_stats(category_issues, semrush_data)
GetCategoryStats ==
    /\ pc = "start"
    /\ pc' = "done"
    /\ stats' = get_category_stats(category_issues, semrush_data).stats
    /\ has_urls' = get_category_stats(category_issues, semrush_data).has_urls
    /\ UNCHANGED <<category_issues, semrush_data, expandVars, urlVars,
                   displayVars, chartVars, loadVars, crawlVars>>

NextStats == GetCategoryStats

SpecStats == InitStats /\ [][NextStats]_vars

----------------------------------------------------------------------------
(* What the claims expect of the statistics of a slice, stated on sets *)

\* word occurs in text, whatever the case of the letters
HasWord(word, text) ==
    \E k \in 0..(Len(text) - Len(word)) :
        \A j \in 1..Len(word) : SameLetter(text[k + j], word[j])

BucketOfType(type) ==
    IF HasWord(sError, type) THEN "Issues"
    ELSE IF HasWord(sWarning, type) THEN "Warnings"
    ELSE "Notices"

NamesIn(rows) == {rows[i].name : i \in 1..Len(rows)}

\* the first row of the slice that carries the name
FirstRowNamed(rows, name) == rows[Min({i \in 1..Len(rows) : rows[i].name = name})]

RECURSIVE SumUrls(_, _)
SumUrls(names, data) ==
    IF names = {} THEN 0
    ELSE LET name == CHOOSE x \in names : TRUE
         IN  Len(AttributedUrls(name, data)) + SumUrls(names \ {name}, data)

\* the total of a bucket: the URL counts of the slice's distinct issue names
\* whose type falls in the bucket
BucketTotal(rows, data, bucket) ==
    SumUrls({name \in NamesIn(rows) :
                BucketOfType(FirstRowNamed(rows, name).type) = bucket}, data)

SliceStats(rows, data) ==
    [Issues   |-> BucketTotal(rows, data, "Issues"),
     Warnings |-> BucketTotal(rows, data, "Warnings"),
     Notices  |-> BucketTotal(rows, data, "Notices")]

\* C3: every counted issue adds the length of its attributed URL list to
\* exactly one bucket, chosen from its type by case-insensitive substring
\* match ("error", otherwise "warning", otherwise Notices); issues with no
\* attributed URL add nothing.
C3_CategoryStats ==
    pc = "done" => stats = SliceStats(category_issues, semrush_data)

\* one Error row whose column flags one of the two pages: {Issues:1,
\* Warnings:0, Notices:0}, has_urls true
C3_Witness ==
    /\ pc = "done"
    /\ Len(category_issues) = 1
    /\ category_issues[1].type = TypeError
    /\ Len(semrush_data.url) >= 2
    /\ Len(AttributedUrls(category_issues[1].name, semrush_data)) = Len(semrush_data.url) - 1
    /\ stats = [Issues |-> Len(semrush_data.url) - 1, Warnings |-> 0, Notices |-> 0]
    /\ has_urls

\* C4: an issue name on two or more rows of the slice is counted once: the
\* three totals add up to the URL counts of the distinct names of the slice.
C4_NoDoubleCount ==
    pc = "done" =>
        stats.Issues + stats.Warnings + stats.Notices
            = SumUrls(NamesIn(category_issues), semrush_data)

\* the same issue name on two rows, with attributed URLs, counted once
C4_Witness ==
    /\ pc = "done"
    /\ Len(category_issues) = 2
    /\ category_issues[1].name = category_issues[2].name
    /\ AttributedUrls(category_issues[1].name, semrush_data) # <<>>
    /\ stats.Issues + stats.Warnings + stats.Notices
          = Len(AttributedUrls(category_issues[1].name, semrush_data))

----------------------------------------------------------------------------
(* The display pass: utils/ui/semrush_tab.py, display_semrush_issues       *)
(* (main.py, lines 213-279, is the same loop inlined in main)              *)

\* a pass that opens an expander for every category
AlwaysShown(flag) == TRUE

\* if has_urls: the category gets its expander
CategoryShown(flag) == flag

\* a pass that forgets which issues it has displayed
NeverDisplayed(name, displayed_issues) == FALSE

\* if issue_name in displayed_issues (line 214)
AlreadyDisplayed(name, displayed_issues) == name \in displayed_issues

\* the loop over category_issues.iterrows() inside the expander, from row j
\* on; acc holds displayed_issues, displayed_issue_count and the cards drawn
RECURSIVE CardsFrom(_, _, _, _)
CardsFrom(rows, data, j, acc) ==
    IF j > Len(rows) THEN acc
    ELSE IF AlreadyDisplayed(rows[j].name, acc.displayed_issues)
         THEN CardsFrom(rows, data, j + 1, acc)
    ELSE LET urls == get_affected_urls_by_issue(rows[j].name, data)
         IN  IF urls # <<>>
             THEN CardsFrom(rows, data, j + 1,
                      [displayed_issues |-> acc.displayed_issues \cup {rows[j].name},
                       displayed_issue_count |-> acc.displayed_issue_count + 1,
                       cards |-> Append(acc.cards,
                                    [issue_name |-> rows[j].name,
                                     type |-> rows[j].type,
                                     urls |-> urls,
                                     ordinal |-> acc.displayed_issue_count])])
             ELSE CardsFrom(rows, data, j + 1, acc)

\* the loop over the sorted categories, from category i on; acc holds
\* displayed_issues, displayed_issue_count and the entries rendered so far
RECURSIVE DisplayFrom(_, _, _, _, _)
DisplayFrom(categories, rows, data, i, acc) ==
    IF i > Len(categories) THEN acc
    ELSE IF ~notna(categories[i]) \/ categories[i] = Uncategorized
         THEN DisplayFrom(categories, rows, data, i + 1, acc)
    ELSE LET category == categories[i]
             slice    == SelectSeq(rows, LAMBDA row : row.category = category)
             result   == get_category_stats(slice, data)
             inner    == CardsFrom(slice, data, 1,
                             [displayed_issues |-> acc.displayed_issues,
                              displayed_issue_count |-> acc.displayed_issue_count,
                              cards |-> <<>>])
         IN  IF CategoryShown(result.has_urls)
             THEN DisplayFrom(categories, rows, data, i + 1,
                      [displayed_issues |-> inner.displayed_issues,
                       displayed_issue_count |-> inner.displayed_issue_count,
                       rendered |-> Append(acc.rendered,
                                       [category |-> category,
                                        stats |-> result.stats,
                                        has_urls |-> result.has_urls,
                                        shown |-> TRUE,
                                        cards |-> inner.cards])])
             ELSE DisplayFrom(categories, rows, data, i + 1,
                      [acc EXCEPT !.rendered =
                          Append(@, [category |-> category,
                                     stats |-> result.stats,
                                     has_urls |-> result.has_urls,
                                     shown |-> FALSE,
                                     cards |-> <<>>])])

\* the entries of one pass, one per category traversed: its label counts, the
\* flag get_category_stats returned, whether its expander was drawn, its cards
display_semrush_issues(rows, data) ==
    DisplayFrom(sorted(unique([i \in 1..Len(rows) |-> rows[i].category])),
                rows, data, 1,
                [displayed_issues |-> {}, displayed_issue_count |-> 0,
                 rendered |-> <<>>]).rendered

----------------------------------------------------------------------------
(* Specification of the display pass *)

\* the expanded, filtered mapping rows handed to the pass: one category each
InitDisplay ==
    /\ pc = "start"
    /\ filtered_semrush \in
          SeqsUpTo([name : {nab, nc}, type : {TypeError, TypeNotice},
                    category : {cLinks, cCrawl}], MaxRows)
    /\ semrush_data \in FlagAudits
    /\ rendered = <<>>
    /\ IdleExpand /\ IdleUrls /\ IdleStats /\ IdleChart /\ IdleLoad /\ IdleCrawl

\* one rendering pass display_semrush_issues(filtered_semrush, semrush_data, ...)
DisplaySemrushIssues ==
    /\ pc = "start"
    /\ pc' = "done"
    /\ rendered' = display_semrush_issues(filtered_semrush, semrush_data)
    /\ UNCHANGED <<filtered_semrush, semrush_data, expandVars, urlVars,
                   statsVars, chartVars, loadVars, crawlVars>>

NextDisplay == DisplaySemrushIssues

SpecDisplay == InitDisplay /\ [][NextDisplay]_vars

----------------------------------------------------------------------------
(* What the claims expect of a display pass *)

CategoriesIn(rows) == {rows[i].category : i \in 1..Len(rows)}

\* the rows of a category, in table order
RowsOfCategory(rows, category) ==
    LET idx == {i \in 1..Len(rows) : rows[i].category = category}
    IN  [k \in 1..Cardinality(idx) |-> rows[Nth(idx, k)]]

\* some row of the category has a non-empty attributed URL list
SomeRowHasUrls(rows, data, category) ==
    \E i \in 1..Len(rows) :
        /\ rows[i].category = category
        /\ AttributedUrls(rows[i].name, data) # <<>>

\* the entry of the pass for a category
EntryOf(category) == rendered[CHOOSE e \in 1..Len(rendered) : rendered[e].category = category]

\* the categories whose expander was drawn
ShownCategories == {rendered[e].category : e \in {x \in 1..Len(rendered) : rendered[x].shown}}

\* C5: has_urls is false exactly when every row of the category slice has an
\* empty attributed URL list, and a category is displayed if and only if its
\* has_urls is true: a category all of whose rows resolve to zero affected
\* URLs is never displayed.
C5_CategorySuppression ==
    pc = "done" =>
        /\ {rendered[e].category : e \in 1..Len(rendered)} = CategoriesIn(filtered_semrush)
        /\ \A e \in 1..Len(rendered) :
              /\ rendered[e].has_urls
                    = SomeRowHasUrls(filtered_semrush, semrush_data, rendered[e].category)
              /\ rendered[e].shown = rendered[e].has_urls
        /\ \A c \in CategoriesIn(filtered_semrush) :
              ~SomeRowHasUrls(filtered_semrush, semrush_data, c) => c \notin ShownCategories

\* of two categories with mapping rows, one has affected URLs and is shown,
\* the other resolves to none and is suppressed
C5_Witness ==
    /\ pc = "done"
    /\ CategoriesIn(filtered_semrush) = {cLinks, cCrawl}
    /\ ShownCategories = {cLinks}
    /\ ~EntryOf(cCrawl).has_urls
    /\ EntryOf(cLinks).has_urls

\* the (entry, card) positions at which an issue name is displayed
CardsNamed(name) ==
    {<<e, k>> \in (1..Len(rendered)) \X (0..MaxRows + 1) :
        /\ k \in 1..Len(rendered[e].cards)
        /\ rendered[e].cards[k].issue_name = name}

\* the categories holding a row with the name
CategoriesOf(rows, name) ==
    {rows[i].category : i \in {x \in 1..Len(rows) : rows[x].name = name}}

\* the first of a set of categories in traversal (sorted) order
FirstCategory(cats) == CHOOSE c \in cats : \A d \in cats \ {c} : StrLess(c, d)

\* C6: in one pass every issue name is displayed at most once, under the
\* first category in traversal order in which it has a non-empty attributed
\* URL list; a later category holding the same name does not display it
\* again, yet its own counts still include the issue's URL count.
C6_DisplayDedup ==
    pc = "done" =>
        /\ \A name \in NamesIn(filtered_semrush) :
              IF AttributedUrls(name, semrush_data) = <<>>
              THEN CardsNamed(name) = {}
              ELSE /\ Cardinality(CardsNamed(name)) = 1
                   /\ \A p \in CardsNamed(name) :
                         rendered[p[1]].category
                            = FirstCategory(CategoriesOf(filtered_semrush, name))
        /\ \A e \in 1..Len(rendered) :
              rendered[e].stats
                 = SliceStats(RowsOfCategory(filtered_semrush, rendered[e].category),
                              semrush_data)

\* "ab" is mapped to Links (first row) and Crawlability (second row): it is
\* displayed under Crawlability, first in sorted order, and not again under
\* Links, whose counts still include its URLs
C6_Witness ==
    /\ pc = "done"
    /\ Len(filtered_semrush) = 2
    /\ filtered_semrush[1] = [name |-> nab, type |-> TypeError, category |-> cLinks]
    /\ filtered_semrush[2] = [name |-> nab, type |-> TypeError, category |-> cCrawl]
    /\ Len(rendered) = 2
    /\ rendered[1].category = cCrawl
    /\ Len(rendered[1].cards) = 1
    /\ rendered[1].cards[1].issue_name = nab
    /\ rendered[2].category = cLinks
    /\ rendered[2].shown
    /\ rendered[2].cards = <<>>
    /\ rendered[2].stats.Issues = Len(rendered[1].cards[1].urls)
    /\ rendered[2].stats.Issues > 0

----------------------------------------------------------------------------
(* Filtered issue-by-URL-count aggregation: utils/visualizations.py,       *)
(* create_issues_stats_chart                                               *)

(* A filter argument is [given, values]: None is not given; a list is      *)
(* given with its values.  A filtered frame keeps the index labels of its  *)
(* rows, so filtered_mapping is the sequence of the surviving rows'        *)
(* positions in mapping_data.                                              *)

\* truth value of a filter argument: None and the empty list are false
Truthy(filter) == filter.given /\ filter.values # {}

\* a membership test that ignores the case of the letters
IsInIgnoringCase(value, values) == lower(value) \in {lower(v) : v \in values}

\* Series.isin(values) on one cell
isin(value, values) == value \in values

\* a mask that compares the whole cell with the filter values
WholeCellMask(cats, values) == notna(cats) /\ cats \in values

\* any(cat.strip() in filtered_categories for cat in str(cats).split(',')
\*     if pd.notna(cats))
CategoryMask(cats, values) ==
    /\ notna(cats)
    /\ \E i \in 1..Len(split(cats)) : strip(split(cats)[i]) \in values

\* the category column has dtype object: it holds a string, or no row at all
ObjectDtype(rows) == rows = <<>> \/ \E i \in 1..Len(rows) : notna(rows[i].category)

\* lines 136-151: the positions of the mapping rows the two filters keep
FilterMapping(rows, types, categories) ==
    LET all    == [i \in 1..Len(rows) |-> i]
        typed  == IF Truthy(types)
                  THEN SelectSeq(all, LAMBDA i : isin(rows[i].type, types.values))
                  ELSE all
    IN  IF Truthy(categories)
        THEN IF ObjectDtype(rows)
             THEN SelectSeq(typed, LAMBDA i : CategoryMask(rows[i].category, categories.values))
             ELSE SelectSeq(typed, LAMBDA i : isin(rows[i].category, categories.values))
        ELSE typed

\* lines 160-168: the row is skipped in the first pass
Skipped(row, categories) ==
    \/ ~notna(row.name) \/ row.name = NA \/ ~notna(row.type) \/ row.type = NA
    \/ /\ Truthy(categories) /\ notna(row.category) /\ row.category # NA
       /\ ~\E i \in 1..Len(CellCategories(row.category)) :
              CellCategories(row.category)[i] \in categories.values

\* lines 174-177: the columns whose lower-cased name is the lower-cased name
MatchingColumns(name, columns) ==
    SelectSeq([i \in 1..Len(columns) |-> i],
              LAMBDA i : lower(columns[i]) = lower(name))

\* a key comparison that keeps the white space
SameLoweredKey(existing_key, name) == lower(existing_key) = lower(name)

\* line 183: the existing key is the name, white space removed and lower-cased
SameKey(existing_key, name) ==
    RemoveWhiteSpace(lower(existing_key)) = RemoveWhiteSpace(lower(name))

\* lines 181-185: the position of the first existing key equal to the name, 0 for None
RECURSIVE FindKey(_, _, _)
FindKey(entries, name, k) ==
    IF k > Len(entries) THEN 0
    ELSE IF SameKey(entries[k].key, name) THEN k
    ELSE FindKey(entries, name, k + 1)

\* first pass (lines 154-196) from position j of filtered on: issue_to_columns
\* as the sequence of its entries in insertion order
RECURSIVE IssueToColumnsFrom(_, _, _, _, _, _)
IssueToColumnsFrom(rows, filtered, data, categories, j, entries) ==
    IF j > Len(filtered) THEN entries
    ELSE LET issue == rows[filtered[j]]
             cols  == MatchingColumns(issue.name, data.columns)
             k     == FindKey(entries, issue.name, 1)
         IN  IF Skipped(issue, categories) \/ cols = <<>>
             THEN IssueToColumnsFrom(rows, filtered, data, categories, j + 1, entries)
             ELSE IF k = 0
             THEN IssueToColumnsFrom(rows, filtered, data, categories, j + 1,
                      Append(entries, [key |-> issue.name, columns |-> cols,
                                       type |-> issue.type, category |-> issue.category]))
             ELSE IssueToColumnsFrom(rows, filtered, data, categories, j + 1,
                      [entries EXCEPT ![k].columns = @ \o cols])

\* a count that adds up the URL lists of the columns
CountWithRepeats(data, columns) ==
    LET lists == [c \in 1..Len(columns) |-> MaskedUrls(data, columns[c])]
    IN  Len(Flatten(lists))

\* lines 200-207, 216: len of the set of the URLs the columns flag
CountDistinct(data, columns) ==
    Cardinality(UNION {{MaskedUrls(data, columns[c])[k] :
                           k \in 1..Len(MaskedUrls(data, columns[c]))} :
                       c \in 1..Len(columns)})

\* a second pass that keeps the entries that affect no URL
IssueStatsWithZeros(entries, data) ==
    [k \in 1..Len(entries) |->
        [name |-> entries[k].key, type |-> entries[k].type,
         count |-> CountDistinct(data, entries[k].columns),
         category |-> entries[k].category]]

\* second pass (lines 199-221): one record per entry that affects a URL
IssueStats(entries, data) ==
    LET all == [k \in 1..Len(entries) |->
                   [name |-> entries[k].key, type |-> entries[k].type,
                    count |-> CountDistinct(data, entries[k].columns),
                    category |-> entries[k].category]]
    IN  SelectSeq(all, LAMBDA record : record.count > 0)

\* lines 236-241: the colour of a bar
Colour(type) ==
    IF Contains(sError, lower(type)) THEN "#dc3545"
    ELSE IF Contains(sWarning, lower(type)) THEN "#ffc107"
    ELSE "#28a745"

\* line 231: the orders sort_values('URL Count', ascending=False) may leave
\* the records in (the default sort is not stable)
SortedByCount(records) ==
    {[k \in 1..Len(records) |-> records[p[k]]] : p \in
        {q \in Permutations(1..Len(records)) :
            \A k \in 1..(Len(records) - 1) :
                records[q[k]].count >= records[q[k + 1]].count}}

----------------------------------------------------------------------------
(* Specifications of the filtered aggregation *)

na_b == <<"a", " ", "b">>

\* the page of row r: its own, or the first row's again on the last row
PageUrls(n) == {[r \in 1..n |-> r], [r \in 1..n |-> IF r = n THEN 1 ELSE r]}

\* audit tables of MaxUrls rows with up to two of the columns "ab", "AB",
\* "a b", in which two rows may be the same page
ChartAudits ==
    {[t EXCEPT !.url = u] :
        t \in UNION {AuditTables(columns, MaxUrls, FlagValues) :
                        columns \in ColumnLists({nab, nAB, na_b})},
        u \in PageUrls(MaxUrls)}

\* the aggregation without filters, over issue names that differ in case and
\* white space (or are "NA", or missing: read_csv reads an "NA" cell as NaN)
\* and over columns that differ in case and white space
InitChart ==
    /\ pc = "start"
    /\ mapping_data \in
          SeqsUpTo([name : {nab, nAB, na_b, NA, Null}, type : {TypeError},
                    category : {cLinks}], MaxRows)
    /\ semrush_data \in ChartAudits
    /\ filtered_types = NoFilter
    /\ filtered_categories = NoFilter
    /\ filtered_mapping = <<>>
    /\ issue_stats = <<>>
    /\ fig = Unset
    /\ IdleExpand /\ IdleUrls /\ IdleStats /\ IdleDisplay /\ IdleLoad /\ IdleCrawl

cBoth == <<"L", ",", " ", "C">>

\* every page is flagged for "ab" and "c"
FullAudit ==
    [columns |-> <<nab, nc>>, url |-> [r \in 1..MaxUrls |-> r],
     data |-> [r \in 1..MaxUrls |-> <<"1", "1">>]]

TypeFilters ==
    {NoFilter} \cup {[given |-> TRUE, values |-> v] :
                        v \in {{}, {TypeError}, {TypeWarning}, {TypeError, TypeWarning},
                               {sError}}}

CategoryFilters ==
    {NoFilter} \cup {[given |-> TRUE, values |-> v] :
                        v \in {{}, {cLinks}, {cCrawl}, {cLinks, cCrawl}, {cBoth}}}

\* the aggregation under every pair of filters, over rows of one or two
\* categories, on an audit table that flags every issue
InitChartFilter ==
    /\ pc = "start"
    /\ \E n \in 0..MaxRows :
          \E cells \in [1..n -> [type : {TypeError, TypeWarning},
                                 category : {cLinks, cCrawl, cBoth, Uncategorized, Null}]] :
             mapping_data = [i \in 1..n |->
                                [name |-> IF i % 2 = 1 THEN nab ELSE nc,
                                 type |-> cells[i].type,
                                 category |-> cells[i].category]]
    /\ semrush_data = FullAudit
    /\ filtered_types \in TypeFilters
    /\ filtered_categories \in CategoryFilters
    /\ filtered_mapping = <<>>
    /\ issue_stats = <<>>
    /\ fig = Unset
    /\ IdleExpand /\ IdleUrls /\ IdleStats /\ IdleDisplay /\ IdleLoad /\ IdleCrawl

\* one call create_issues_stats_chart(semrush_data, mapping_data,
\*                                    filtered_types, filtered_categories)
CreateIssuesStatsChart ==
    /\ pc = "start"
    /\ pc' = "done"
    /\ LET filtered == FilterMapping(mapping_data, filtered_types, filtered_categories)
           entries  == IssueToColumnsFrom(mapping_data, filtered, semrush_data,
                                          filtered_categories, 1, <<>>)
           records  == IssueStats(entries, semrush_data)
       IN  /\ filtered_mapping' = filtered
           /\ issue_stats' = records
           /\ IF records = <<>>
              THEN fig' = [returned |-> "None", bars |-> <<>>]
              ELSE \E ordered \in SortedByCount(records) :
                      fig' = [returned |-> "Figure",
                              bars |-> [k \in 1..Len(ordered) |->
                                           [y |-> ordered[k].name,
                                            x |-> ordered[k].count,
                                            marker_color |-> Colour(ordered[k].type)]]]
    /\ UNCHANGED <<mapping_data, semrush_data, filtered_types, filtered_categories,
                   expandVars, urlVars, statsVars, displayVars, loadVars, crawlVars>>

NextChart == CreateIssuesStatsChart

SpecChart == InitChart /\ [][NextChart]_vars

SpecChartFilter == InitChartFilter /\ [][NextChart]_vars

----------------------------------------------------------------------------
(* What the claims expect of the filtered aggregation *)

\* s without its white space
Squeezed(s) ==
    LET ink == {i \in 1..Len(s) : s[i] \notin WhiteSpace}
    IN  [k \in 1..Cardinality(ink) |-> s[Nth(ink, k)]]

\* equal after removing all white space and case-folding
SameIssue(s, t) == EqualIgnoringCase(Squeezed(s), Squeezed(t))

\* the row at position i survived the filters
Survives(i) == \E k \in 1..Len(filtered_mapping) : filtered_mapping[k] = i

\* the surviving rows that name a source issue
SurvivingIssues ==
    {i \in 1..Len(mapping_data) :
        /\ Survives(i)
        /\ mapping_data[i].name \notin {NA, Null}
        /\ mapping_data[i].type \notin {NA, Null}}

\* the pages flagged by a column that matches the name of row i
PagesOfRow(i) ==
    {semrush_data.url[r] : r \in
        UNION {FlaggedRows(semrush_data, c) :
                  c \in ColumnsNamed(mapping_data[i].name, semrush_data)}}

\* the pages of all surviving rows that are the same issue as the name
PagesOfIssue(name) ==
    UNION {PagesOfRow(i) : i \in {x \in SurvivingIssues :
                                     SameIssue(mapping_data[x].name, name)}}

\* C7: the URL count of a record is the number of distinct Page URL values
\* flagged in any column that matches the issue; a URL flagged under two
\* matching columns, or reached through two mapping rows of the issue, is
\* counted once.
C7_DistinctCount ==
    pc = "done" =>
        \A k \in 1..Len(issue_stats) :
            issue_stats[k].count = Cardinality(PagesOfIssue(issue_stats[k].name))

\* rows "AB" and "ab", columns "AB" flagging pages {1, 2} and "ab" flagging
\* {2}: one record with a count of 2, not 3 (nor 6)
C7_Witness ==
    /\ pc = "done"
    /\ Len(mapping_data) = 2
    /\ mapping_data[1].name = nAB
    /\ mapping_data[2].name = nab
    /\ semrush_data = [columns |-> <<nAB, nab>>, url |-> <<1, 2>>,
                       data |-> <<<<"1", "0">>, <<"1", "1">>>>]
    /\ Len(issue_stats) = 1
    /\ issue_stats[1].count = 2

\* C8: two surviving rows whose names are equal after removing white space
\* and case-folding are merged into one record; no two records have names
\* equal under that normalisation.
C8_MergedNames ==
    pc = "done" =>
        /\ \A k, l \in 1..Len(issue_stats) :
              k # l => ~SameIssue(issue_stats[k].name, issue_stats[l].name)
        /\ \A i \in SurvivingIssues :
              PagesOfRow(i) # {} =>
                 Cardinality({k \in 1..Len(issue_stats) :
                                 SameIssue(issue_stats[k].name, mapping_data[i].name)}) = 1

\* rows "a b" and "AB", each with a column of its own that flags a page, are
\* merged into the single record "a b"
C8_Witness ==
    /\ pc = "done"
    /\ Len(mapping_data) = 2
    /\ mapping_data[1].name = na_b
    /\ mapping_data[2].name = nAB
    /\ PagesOfRow(1) # {}
    /\ PagesOfRow(2) # {}
    /\ Len(issue_stats) = 1
    /\ issue_stats[1].name = na_b

\* the comma-split, trimmed categories of a cell
TokensOf(cell) ==
    IF cell = Null THEN {}
    ELSE {Trimmed(Token(cell, k)) : k \in 1..(Cardinality(Commas(cell)) + 1)}

TypeAdmitted(i) ==
    Truthy(filtered_types) => mapping_data[i].type \in filtered_types.values

CategoryAdmitted(i) ==
    Truthy(filtered_categories) =>
        TokensOf(mapping_data[i].category) \cap filtered_categories.values # {}

\* C9: under a non-empty category filter a row survives if and only if at
\* least one of its comma-split, trimmed categories is in the filter set.
C9_CategoryFilter ==
    (pc = "done" /\ Truthy(filtered_categories)) =>
        \A i \in 1..Len(mapping_data) :
            TypeAdmitted(i) =>
                (Survives(i) <=>
                    TokensOf(mapping_data[i].category) \cap filtered_categories.values # {})

\* a row with category "L, C" survived the filter ["C"], and a row with
\* category "L" did not
C9_Witness ==
    /\ pc = "done"
    /\ Len(mapping_data) = 2
    /\ mapping_data[1].category = cBoth
    /\ mapping_data[2].category = cLinks
    /\ filtered_categories = [given |-> TRUE, values |-> {cCrawl}]
    /\ filtered_mapping = <<1>>

\* C10: under a non-empty type filter a row survives if and only if its type
\* is exactly a member of the filter set; an empty or absent filter removes
\* no row.
C10_TypeFilter ==
    pc = "done" =>
        /\ \A i \in 1..Len(mapping_data) :
              CategoryAdmitted(i) =>
                 (Survives(i) <=>
                     (Truthy(filtered_types) =>
                         mapping_data[i].type \in filtered_types.values))
        /\ (~Truthy(filtered_types) /\ ~Truthy(filtered_categories)) =>
              filtered_mapping = [i \in 1..Len(mapping_data) |-> i]
        /\ ~Truthy(filtered_types) =>
              \A i \in 1..Len(mapping_data) : CategoryAdmitted(i) => Survives(i)
        /\ ~Truthy(filtered_categories) =>
              \A i \in 1..Len(mapping_data) : TypeAdmitted(i) => Survives(i)

\* the filter ["Error"] kept the Error row and removed the Warning row
C10_Witness ==
    /\ pc = "done"
    /\ Len(mapping_data) = 2
    /\ mapping_data[1].type = TypeWarning
    /\ mapping_data[2].type = TypeError
    /\ filtered_types = [given |-> TRUE, values |-> {TypeError}]
    /\ filtered_categories = [given |-> TRUE, values |-> {}]
    /\ filtered_mapping = <<2>>

\* the surviving rows whose issue is flagged on at least one page
IssuesWithUrls == {i \in SurvivingIssues : PagesOfRow(i) # {}}

\* C11: every record of the aggregation has a distinct URL count of at least
\* 1 (an issue that no page is flagged for has no record), and the call
\* returns None (no chart), never a chart without bars, exactly when no
\* surviving issue has a URL.
C11_NoData ==
    pc = "done" =>
        /\ \A k \in 1..Len(issue_stats) : issue_stats[k].count >= 1
        /\ \A i \in SurvivingIssues :
              PagesOfIssue(mapping_data[i].name) = {} =>
                 \A k \in 1..Len(issue_stats) :
                    ~SameIssue(issue_stats[k].name, mapping_data[i].name)
        /\ (fig.returned = "None") <=> (IssuesWithUrls = {})
        /\ (fig.returned = "Figure") <=> (IssuesWithUrls # {})
        /\ fig.returned = "Figure" =>
              /\ Len(fig.bars) = Len(issue_stats)
              /\ Len(fig.bars) >= 1
              /\ \A k \in 1..Len(fig.bars) : fig.bars[k].x >= 1

\* the only issue, "ab", has a column that flags no page: no record and no
\* chart
C11_Witness ==
    /\ pc = "done"
    /\ Len(mapping_data) = 1
    /\ mapping_data[1].name = nab
    /\ semrush_data.columns = <<nab>>
    /\ PagesOfRow(1) = {}
    /\ issue_stats = <<>>
    /\ fig.returned = "None"

----------------------------------------------------------------------------
(* Loaders: utils/data_loader.py                                           *)

(* A file is [present, parses, columns, rows]: whether it is there, whether *)
(* pd.read_csv can parse it, the columns of its header and its rows, each   *)
(* a function from the columns to the cell texts.  The columns are named    *)
(* by short keys:                                                           *)
(*   mapping file: name 'Issue Name Contains - SemRush', type 'Issue Type - *)
(*     SemRush', category 'Issue category - SemRush', sf_name 'Issue Name - *)
(*     ScreamingFrog', sf_type 'Issue Type - ScreamingFrog';                *)
(*   target-tool export: name 'Issue Name', type 'Issue Type', priority     *)
(*     'Issue Priority', percent '% of Total';                              *)
(*   source-tool export: url 'Page URL', issue (an issue column), note (a   *)
(*     column of texts).                                                    *)
(* A loaded cell is a text, Null, or a number: the tag "<number>" followed  *)
(* by the digits of its value.                                              *)

Digits == {"0", "1", "2", "3", "4", "5", "6", "7", "8", "9"}

\* the cell texts of the explored files that pd.read_csv reads as missing
\* (two of its default na_values: the empty cell and "NA")
na_values == {<<>>, NA}

\* the text is an unsigned decimal numeral: digits with at most one point
IsNumeral(t) ==
    /\ \A i \in 1..Len(t) : t[i] \in Digits \cup {"."}
    /\ \E i \in 1..Len(t) : t[i] \in Digits
    /\ Cardinality({i \in 1..Len(t) : t[i] = "."}) <= 1

RECURSIVE DropLeadingZeros(_)
DropLeadingZeros(t) ==
    IF Len(t) > 1 /\ Head(t) = "0" THEN DropLeadingZeros(Tail(t)) ELSE t

RECURSIVE DropTrailingZeros(_)
DropTrailingZeros(t) ==
    IF t # <<>> /\ t[Len(t)] = "0" THEN DropTrailingZeros(SubSeq(t, 1, Len(t) - 1))
    ELSE t

\* the value of a numeral: its digits without leading zeros and without
\* trailing zeros after the point (so that 50, 50.0 and 050 are one value)
ValueOf(t) ==
    LET points == {i \in 1..Len(t) : t[i] = "."}
        p      == IF points = {} THEN Len(t) + 1 ELSE CHOOSE i \in points : TRUE
        whole  == DropLeadingZeros(IF p = 1 THEN <<"0">> ELSE SubSeq(t, 1, p - 1))
        frac   == DropTrailingZeros(SubSeq(t, p + 1, Len(t)))
    IN  <<"<number>">> \o whole \o (IF frac = <<>> THEN <<>> ELSE <<".">> \o frac)

\* the column is read with a numeric dtype: it has a row, and every cell is
\* missing or a numeral; otherwise its dtype is object
NumericDtype(rows, col) ==
    /\ rows # <<>>
    /\ \A i \in 1..Len(rows) : rows[i][col] \in na_values \/ IsNumeral(rows[i][col])

\* pd.read_csv(file): the exception it raises, or the table it reads
read_csv(file) ==
    IF ~file.present THEN [exception |-> "FileNotFoundError", columns |-> {}, rows |-> <<>>]
    ELSE IF ~file.parses THEN [exception |-> "ParserError", columns |-> {}, rows |-> <<>>]
    ELSE [exception |-> "none", columns |-> file.columns,
          rows |-> [i \in 1..Len(file.rows) |->
                      [col \in file.columns |->
                          IF file.rows[i][col] \in na_values THEN Null
                          ELSE IF NumericDtype(file.rows, col)
                               THEN ValueOf(file.rows[i][col])
                          ELSE file.rows[i][col]]]]

\* a dtype test that takes every column for a column of texts
EveryColumn(rows, col) == TRUE

\* df[col].dtype == 'object' of the table read: some cell is a text, or the
\* table has no row
object_dtype(rows, col) ==
    \/ rows = <<>>
    \/ \E i \in 1..Len(rows) : rows[i][col] # Null /\ rows[i][col][1] # "<number>"

\* a fillna that writes the empty text
FillWithEmpty(cell) == IF cell = Null THEN <<>> ELSE cell

\* clean_category_values on one cell: series.fillna('Uncategorized')
clean_category_values(cell) == IF cell = Null THEN Uncategorized ELSE cell

\* df[col] = clean_category_values(df[col]), KeyError if the column is absent
CleanColumn(frame, col) ==
    IF frame.exception # "none" THEN frame
    ELSE IF col \notin frame.columns THEN [frame EXCEPT !.exception = "KeyError"]
    ELSE [frame EXCEPT !.rows =
              [i \in 1..Len(frame.rows) |->
                  [frame.rows[i] EXCEPT ![col] = clean_category_values(@)]]]

\* a handler that catches ValueError only
ExceptValueError(exception) == exception = "ValueError"

\* except Exception: every exception of the body is caught
ExceptException(exception) ==
    exception \in {"FileNotFoundError", "ParserError", "KeyError", "ValueError",
                   "AttributeError"}

\* try: body / except Exception as e: st.error(...); return None
\* the result is [table, reported, escaped]
TryExcept(body, message) ==
    IF body.exception = "none"
    THEN [table |-> [returned |-> "DataFrame", columns |-> body.columns,
                     rows |-> body.rows],
          reported |-> <<>>, escaped |-> "none"]
    ELSE IF ExceptException(body.exception)
    THEN [table |-> [returned |-> "None", columns |-> {}, rows |-> <<>>],
          reported |-> <<[message |-> message, error |-> body.exception]>>,
          escaped |-> "none"]
    ELSE [table |-> NotLoaded, reported |-> <<>>, escaped |-> body.exception]

load_mapping_data(file) ==
    TryExcept(CleanColumn(CleanColumn(CleanColumn(read_csv(file), "category"),
                                      "type"), "sf_type"),
              "Error loading mapping file")

\* str.replace(',', '.') on one cell of an object column; a missing cell
\* stays missing
str_replace(cell) ==
    IF cell = Null THEN Null
    ELSE [i \in 1..Len(cell) |-> IF cell[i] = "," THEN "." ELSE cell[i]]

\* float(text) accepts a numeral, white space around it allowed
Convertible(cell) == cell = Null \/ IsNumeral(strip(cell))

\* df['% of Total'] = df['% of Total'].str.replace(',', '.').astype(float)
ConvertPercent(frame) ==
    IF frame.exception # "none" THEN frame
    ELSE IF "percent" \notin frame.columns THEN [frame EXCEPT !.exception = "KeyError"]
    ELSE IF ~object_dtype(frame.rows, "percent")     \* no .str on a numeric column
         THEN [frame EXCEPT !.exception = "AttributeError"]
    ELSE LET replaced == [i \in 1..Len(frame.rows) |->
                              str_replace(frame.rows[i]["percent"])]
         IN  IF \E i \in 1..Len(replaced) : ~Convertible(replaced[i])
             THEN [frame EXCEPT !.exception = "ValueError"]
             ELSE [frame EXCEPT !.rows =
                      [i \in 1..Len(frame.rows) |->
                          [frame.rows[i] EXCEPT !["percent"] =
                              IF replaced[i] = Null THEN Null
                              ELSE ValueOf(strip(replaced[i]))]]]

load_sf_issues(file) ==
    TryExcept(CleanColumn(CleanColumn(ConvertPercent(read_csv(file)), "type"),
                          "priority"),
              "Error loading Screaming Frog issues")

\* for col in df.columns: if df[col].dtype == 'object': clean the column
CleanObjectColumns(frame) ==
    IF frame.exception # "none" THEN frame
    ELSE [frame EXCEPT !.rows =
             [i \in 1..Len(frame.rows) |->
                 [col \in frame.columns |->
                     IF object_dtype(frame.rows, col)
                     THEN clean_category_values(frame.rows[i][col])
                     ELSE frame.rows[i][col]]]]

load_semrush_data(file) ==
    TryExcept(CleanObjectColumns(read_csv(file)), "Error loading SemRush file")

----------------------------------------------------------------------------
(* Matched-issue comparison: utils/ui/comparison_tab.py (main.py 349-379)  *)

\* series != 'NA' on one cell; a missing cell is not equal to any text
NotEqual(cell, text) == cell # text

\* get_matched_issues: the positions of the rows the mask keeps
get_matched_issues(rows) ==
    SelectSeq([i \in 1..Len(rows) |-> i],
              LAMBDA i : NotEqual(rows[i]["name"], NA) /\ NotEqual(rows[i]["sf_name"], NA))

\* display_summary_metrics: the four st.metric values
display_summary_metrics(matched, rows) ==
    [total_mapped   |-> Len(matched),
     unique_semrush |-> Cardinality({i \in 1..Len(rows) : NotEqual(rows[i]["name"], NA)}),
     found_in_both  |-> Len(SelectSeq(matched,
                                      LAMBDA i : NotEqual(rows[i]["sf_name"], NA))),
     unique_sf      |-> Cardinality({i \in 1..Len(rows) : NotEqual(rows[i]["sf_name"], NA)})]

----------------------------------------------------------------------------
(* Inputs of the loaders *)

sIssue == <<"I", "s", "s", "u", "e">>
sHigh == <<"H", "i", "g", "h">>
sAbc == <<"a", "b", "c">>
sUrl == <<"u">>
sNote == <<"t">>
pTwelveHalf == <<"1", "2", ",", "5">>
pFifty == <<"5", "0">>
pHalf == <<"0", ",", "5", "0">>
sOne == <<"1">>

MappingColumns == {"name", "type", "category", "sf_name", "sf_type"}
SfColumns == {"name", "type", "priority", "percent"}
SemrushColumns == {"url", "issue", "note"}

\* rows of a mapping file: either name may be the sentinel "NA", and each of
\* the three categorical cells may be empty
MappingRows ==
    [name : {nab, NA}, type : {TypeError, <<>>}, category : {cLinks, <<>>},
     sf_name : {nc, NA}, sf_type : {sIssue, <<>>}]

\* rows of a target-tool export: the percentage is written with a decimal
\* comma, without one, is a text, or is empty
SfRows ==
    [name : {nab}, type : {sIssue, <<>>}, priority : {sHigh, <<>>},
     percent : {pTwelveHalf, pFifty, pHalf, sAbc, <<>>}]

\* rows of a source-tool export: a page, an issue count and a note
SemrushRows ==
    [url : {sUrl}, issue : {sOne, <<>>, sAbc}, note : {sNote, <<>>}]

\* a file that is not there, one that does not parse, one that lacks the
\* column, and the well-formed files of at most n rows
FilesOf(columns, rowset, lacking, n) ==
    {NoFile,
     [present |-> TRUE, parses |-> FALSE, columns |-> {}, rows |-> <<>>],
     [present |-> TRUE, parses |-> TRUE, columns |-> columns \ {lacking},
      rows |-> <<>>]}
    \cup {[present |-> TRUE, parses |-> TRUE, columns |-> columns, rows |-> r] :
             r \in SeqsUpTo(rowset, n)}

----------------------------------------------------------------------------
(* Specification of the mapping loader and the comparison *)

InitLoadMapping ==
    /\ pc = "start"
    /\ MAPPING_FILE \in FilesOf(MappingColumns, MappingRows, "sf_type", MaxRows)
    /\ semrush_file = NoFile
    /\ sf_file = NoFile
    /\ mapping_table = NotLoaded
    /\ semrush_table = NotLoaded
    /\ sf_issues = NotLoaded
    /\ reported = <<>>
    /\ escaped = "none"
    /\ steps = <<>>
    /\ matched_issues = <<>>
    /\ metrics = NoMetrics
    /\ semrush_data = EmptyAudit
    /\ IdleExpand /\ IdleUrls /\ IdleStats /\ IdleDisplay /\ IdleChart /\ IdleCrawl

otherVars == <<semrush_data, expandVars, urlVars, statsVars, displayVars, chartVars,
               crawlVars>>

\* mapping_data = load_mapping_data(MAPPING_FILE)
LoadMappingData ==
    /\ pc = "start"
    /\ pc' = "loaded"
    /\ LET result == load_mapping_data(MAPPING_FILE)
       IN  /\ mapping_table' = result.table
           /\ reported' = reported \o result.reported
           /\ escaped' = result.escaped
    /\ UNCHANGED <<MAPPING_FILE, semrush_file, sf_file, semrush_table, sf_issues,
                   steps, matched_issues, metrics, otherVars>>

\* render_comparison_tab(mapping_data): the matched rows, and the summary
\* metrics when there is a matched row
RenderComparisonTab ==
    /\ pc = "loaded"
    /\ mapping_table.returned = "DataFrame"
    /\ pc' = "done"
    /\ LET matched == get_matched_issues(mapping_table.rows)
       IN  /\ matched_issues' = matched
           /\ metrics' = IF matched # <<>>
                         THEN display_summary_metrics(matched, mapping_table.rows)
                         ELSE metrics
    /\ UNCHANGED <<MAPPING_FILE, semrush_file, sf_file, mapping_table, semrush_table,
                   sf_issues, reported, escaped, steps, otherVars>>

NextLoadMapping == LoadMappingData \/ RenderComparisonTab

SpecLoadMapping == InitLoadMapping /\ [][NextLoadMapping]_vars

----------------------------------------------------------------------------
(* What the claims expect of the mapping loader and the comparison *)

\* the rows of the mapping file that have a source-tool and a target-tool
\* issue: neither name is the sentinel "NA"
MatchedInFile ==
    {i \in 1..Len(MAPPING_FILE.rows) :
        MAPPING_FILE.rows[i]["name"] # NA /\ MAPPING_FILE.rows[i]["sf_name"] # NA}

\* C12: get_matched_issues returns exactly the rows for which neither the
\* source issue name nor the target issue name is the sentinel "NA" (a row
\* without a source-tool or target-tool equivalent is never returned), and
\* the "Issues Found in Both Tools" count equals the "Total Mapped Issues"
\* count.
C12_MatchedIssues ==
    pc = "done" =>
        /\ {matched_issues[k] : k \in 1..Len(matched_issues)} = MatchedInFile
        /\ metrics.found_in_both = metrics.total_mapped

CategoricalColumns == {"category", "type", "sf_type"}

\* C15: in the table load_mapping_data returns, no cell of the three
\* categorical columns is missing: a cell that was missing in the file holds
\* "Uncategorized", and every other cell is as pd.read_csv read it.
C15_MappingNormalized ==
    mapping_table.returned = "DataFrame" =>
        /\ Len(mapping_table.rows) = Len(MAPPING_FILE.rows)
        /\ \A i \in 1..Len(mapping_table.rows) :
              \A col \in MappingColumns :
                 LET text == MAPPING_FILE.rows[i][col]
                     cell == mapping_table.rows[i][col]
                 IN  /\ col \in CategoricalColumns => cell # Null
                     /\ (col \in CategoricalColumns /\ text \in {<<>>, NA}) =>
                           cell = Uncategorized
                     /\ (col \notin CategoricalColumns \/ text \notin {<<>>, NA}) =>
                           cell = read_csv(MAPPING_FILE).rows[i][col]

\* a loaded row whose category and target type were empty in the file and
\* whose target issue name was "NA": the two hold "Uncategorized", the name
\* is missing as read, the source name and type are the texts of the file
C15_Witness ==
    /\ pc = "loaded"
    /\ mapping_table.returned = "DataFrame"
    /\ Len(mapping_table.rows) = 1
    /\ MAPPING_FILE.rows[1] = [name |-> nab, type |-> TypeError, category |-> <<>>,
                               sf_name |-> NA, sf_type |-> <<>>]
    /\ mapping_table.rows[1] = [name |-> nab, type |-> TypeError,
                                category |-> Uncategorized, sf_name |-> Null,
                                sf_type |-> Uncategorized]

----------------------------------------------------------------------------
(* Specification of the two audit loaders *)

\* one uploaded export, of either tool
InitLoadAudits ==
    /\ pc = "start"
    /\ MAPPING_FILE = NoFile
    /\ \/ /\ semrush_file \in FilesOf(SemrushColumns, SemrushRows, "note", MaxUrls) \ {NoFile}
          /\ sf_file = NoFile
       \/ /\ semrush_file = NoFile
          /\ sf_file \in FilesOf(SfColumns, SfRows, "priority", MaxRows) \ {NoFile}
    /\ mapping_table = NotLoaded
    /\ semrush_table = NotLoaded
    /\ sf_issues = NotLoaded
    /\ reported = <<>>
    /\ escaped = "none"
    /\ steps = <<>>
    /\ matched_issues = <<>>
    /\ metrics = NoMetrics
    /\ semrush_data = EmptyAudit
    /\ IdleExpand /\ IdleUrls /\ IdleStats /\ IdleDisplay /\ IdleChart /\ IdleCrawl

\* semrush_data = load_semrush_data(semrush_file)
LoadSemrushData ==
    /\ pc = "start"
    /\ semrush_file.present
    /\ pc' = "loaded"
    /\ LET result == load_semrush_data(semrush_file)
       IN  /\ semrush_table' = result.table
           /\ reported' = reported \o result.reported
           /\ escaped' = result.escaped
    /\ UNCHANGED <<MAPPING_FILE, semrush_file, sf_file, mapping_table, sf_issues,
                   steps, matched_issues, metrics, otherVars>>

\* sf_issues = load_sf_issues(sf_file)
LoadSfIssues ==
    /\ pc = "start"
    /\ sf_file.present
    /\ pc' = "loaded"
    /\ LET result == load_sf_issues(sf_file)
       IN  /\ sf_issues' = result.table
           /\ reported' = reported \o result.reported
           /\ escaped' = result.escaped
    /\ UNCHANGED <<MAPPING_FILE, semrush_file, sf_file, mapping_table, semrush_table,
                   steps, matched_issues, metrics, otherVars>>

NextLoadAudits == LoadSemrushData \/ LoadSfIssues

SpecLoadAudits == InitLoadAudits /\ [][NextLoadAudits]_vars

----------------------------------------------------------------------------
(* What the claims expect of the audit loaders *)

\* the cell of the file held no value
MissingInFile(text) == text \in {<<>>, NA}

\* the fields of the loaded table whose value was missing in the file
MissingFields(file, table) ==
    {<<i, col>> \in (1..Len(table.rows)) \X table.columns :
        MissingInFile(file.rows[i][col])}

\* the column of the file holds a text that is not a number
TextColumn(file, col) ==
    \/ file.rows = <<>>
    \/ \E i \in 1..Len(file.rows) :
          ~MissingInFile(file.rows[i][col]) /\ ~IsNumeral(file.rows[i][col])

\* C14 as claimed: in a loaded audit table every field that was missing in
\* the file holds "Uncategorized", and no field is null.
C14_AsClaimed ==
    /\ semrush_table.returned = "DataFrame" =>
          \A f \in MissingFields(semrush_file, semrush_table) :
             semrush_table.rows[f[1]][f[2]] = Uncategorized
    /\ sf_issues.returned = "DataFrame" =>
          \A f \in MissingFields(sf_file, sf_issues) :
             sf_issues.rows[f[1]][f[2]] = Uncategorized

\* C14, amended: load_semrush_data puts "Uncategorized" in the missing
\* fields of the columns that hold a text and leaves those of the numeric
\* columns null; load_sf_issues puts "Uncategorized" in the missing fields
\* of Issue Type and Issue Priority and leaves those of the other columns
\* null.
C14_NullNormalization ==
    /\ semrush_table.returned = "DataFrame" =>
          \A f \in MissingFields(semrush_file, semrush_table) :
             semrush_table.rows[f[1]][f[2]] =
                IF TextColumn(semrush_file, f[2]) THEN Uncategorized ELSE Null
    /\ sf_issues.returned = "DataFrame" =>
          \A f \in MissingFields(sf_file, sf_issues) :
             sf_issues.rows[f[1]][f[2]] =
                IF f[2] \in {"type", "priority"} THEN Uncategorized ELSE Null

\* an export whose issue column holds a count and an empty cell and whose
\* note column holds a text and an empty cell: the empty count stays null,
\* the empty note holds "Uncategorized"
C14_Witness ==
    /\ pc = "loaded"
    /\ semrush_table.returned = "DataFrame"
    /\ Len(semrush_table.rows) = 2
    /\ semrush_file.rows[1] = [url |-> sUrl, issue |-> sOne, note |-> sNote]
    /\ semrush_file.rows[2] = [url |-> sUrl, issue |-> <<>>, note |-> <<>>]
    /\ semrush_table.rows[2]["issue"] = Null
    /\ semrush_table.rows[2]["note"] = Uncategorized

\* the text with its commas read as decimal points
CommaAsPoint(text) == [i \in 1..Len(text) |-> IF text[i] = "," THEN "." ELSE text[i]]

\* the export parses, has its columns and at least one row
WellFormed(file) ==
    file.present /\ file.parses /\ file.columns = SfColumns /\ file.rows # <<>>

\* C16: when every "% of Total" value of the file is convertible,
\* load_sf_issues yields a table in which each value is the number read with
\* the comma as decimal point; when a value is not convertible the load
\* fails and yields no table.
C16_PercentConversion ==
    (pc = "loaded" /\ WellFormed(sf_file)) =>
        IF \A i \in 1..Len(sf_file.rows) : IsNumeral(CommaAsPoint(sf_file.rows[i]["percent"]))
        THEN /\ sf_issues.returned = "DataFrame"
             /\ \A i \in 1..Len(sf_file.rows) :
                   sf_issues.rows[i]["percent"] =
                      ValueOf(CommaAsPoint(sf_file.rows[i]["percent"]))
        ELSE \/ sf_issues.returned = "None"
             \/ \A i \in 1..Len(sf_file.rows) :
                   \/ MissingInFile(sf_file.rows[i]["percent"])
                   \/ IsNumeral(CommaAsPoint(sf_file.rows[i]["percent"]))

----------------------------------------------------------------------------
(* One run of the dashboard script: main.py, main                          *)

\* the reconciliation steps of one run over the three loaded tables, in
\* order, up to the exception that ends the run if one is raised:
\*   line 90 expands the categories; line 98 reads the category column of
\*   the expansion, which an expansion without rows does not have; line 118
\*   reads selected_categories, which is bound only when the filters are
\*   shown; lines 217-229 compute the statistics and the URLs of every
\*   issue, lower-casing its name; tab 2 filters the target-tool issues and
\*   tab 3 compares the tools.
ReconciliationSteps(rows, show_filters) ==
    LET semrush_issues ==
            process_semrush_categories(SelectSeq(rows, LAMBDA r : NotEqual(r["type"], NA)))
    IN  IF show_filters /\ semrush_issues = <<>>
        THEN <<"process_semrush_categories", "raise KeyError">>
        ELSE IF ~show_filters
        THEN <<"process_semrush_categories", "raise NameError">>
        ELSE IF \E i \in 1..Len(semrush_issues) : semrush_issues[i]["name"] = Null
        THEN <<"process_semrush_categories", "filter_semrush_data",
               "get_category_stats", "get_affected_urls_by_issue", "raise AttributeError">>
        ELSE <<"process_semrush_categories", "filter_semrush_data",
               "get_category_stats", "get_affected_urls_by_issue",
               "filter_sf_data", "get_matched_issues">>

\* the run got as far as the comparison tab
Compared(run) == run # <<>> /\ run[Len(run)] = "get_matched_issues"

MainMappingRows ==
    [name : {nab, NA}, type : {TypeError}, category : {cLinks, <<>>},
     sf_name : {nc}, sf_type : {sIssue}]
MainSfRows ==
    [name : {nab}, type : {sIssue}, priority : {sHigh}, percent : {pTwelveHalf, sAbc}]
MainSemrushRows ==
    [url : {sUrl}, issue : {sOne, <<>>}, note : {sNote}]

\* the mapping file on disk and the two uploads, each of which may be
\* absent, unreadable, without a column, or well formed
InitMain ==
    /\ pc = "start"
    /\ MAPPING_FILE \in FilesOf(MappingColumns, MainMappingRows, "sf_type", MaxRows)
    /\ semrush_file \in FilesOf(SemrushColumns, MainSemrushRows, "note", MaxUrls)
    /\ sf_file \in FilesOf(SfColumns, MainSfRows, "priority", MaxRows)
    /\ mapping_table = NotLoaded
    /\ semrush_table = NotLoaded
    /\ sf_issues = NotLoaded
    /\ reported = <<>>
    /\ escaped = "none"
    /\ steps = <<>>
    /\ matched_issues = <<>>
    /\ metrics = NoMetrics
    /\ semrush_data = EmptyAudit
    /\ IdleExpand /\ IdleUrls /\ IdleStats /\ IdleDisplay /\ IdleChart /\ IdleCrawl

\* one run of main (lines 58-402) with the Show Filters box ticked or not
Main ==
    /\ pc = "start"
    /\ pc' = "done"
    /\ \E show_filters \in BOOLEAN :
       LET mapping == load_mapping_data(MAPPING_FILE)
           upload  == /\ mapping.table.returned = "DataFrame"
                      /\ semrush_file.present /\ sf_file.present
           semrush == load_semrush_data(semrush_file)
           sf      == load_sf_issues(sf_file)
           tabs    == /\ upload
                      /\ semrush.table.returned = "DataFrame"
                      /\ sf.table.returned = "DataFrame"
           run     == IF tabs THEN ReconciliationSteps(mapping.table.rows, show_filters)
                      ELSE <<>>
           matched == get_matched_issues(mapping.table.rows)
       IN  /\ mapping_table' = mapping.table
           /\ semrush_table' = IF upload THEN semrush.table ELSE NotLoaded
           /\ sf_issues' = IF upload /\ semrush.escaped = "none" THEN sf.table
                           ELSE NotLoaded
           /\ reported' = mapping.reported \o
                          (IF upload THEN semrush.reported \o sf.reported ELSE <<>>)
           /\ escaped' = IF mapping.escaped # "none" THEN mapping.escaped
                         ELSE IF upload /\ semrush.escaped # "none" THEN semrush.escaped
                         ELSE IF upload THEN sf.escaped
                         ELSE "none"
           /\ steps' = run
           /\ matched_issues' = IF Compared(run) THEN matched ELSE <<>>
           /\ metrics' = IF Compared(run) /\ matched # <<>>
                         THEN display_summary_metrics(matched, mapping.table.rows)
                         ELSE NoMetrics
    /\ UNCHANGED <<MAPPING_FILE, semrush_file, sf_file, otherVars>>

NextMain == Main

SpecMain == InitMain /\ [][NextMain]_vars

----------------------------------------------------------------------------
(* What the claims expect of a run *)

\* the loader was called and yielded no table
LoadFailed(table) == table.returned = "None"

\* C13: a loader whose file cannot be loaded catches the exception, reports
\* it and yields no table; it raises nothing, and the run executes no
\* reconciliation step.  Reconciliation steps are executed only when all
\* three tables are present.
C13_LoadGating ==
    pc = "done" =>
        /\ escaped = "none"
        /\ (LoadFailed(mapping_table) \/ LoadFailed(semrush_table) \/ LoadFailed(sf_issues)) =>
              /\ steps = <<>>
              /\ matched_issues = <<>>
              /\ reported # <<>>
        /\ steps # <<>> =>
              /\ mapping_table.returned = "DataFrame"
              /\ semrush_table.returned = "DataFrame"
              /\ sf_issues.returned = "DataFrame"
        /\ Len(reported) =
              Cardinality({t \in {"m", "s", "f"} :
                  LoadFailed(CASE t = "m" -> mapping_table
                               [] t = "s" -> semrush_table
                               [] OTHER -> sf_issues)})

\* the mapping file and the source export load, the target export holds the
\* percentage "abc": its loader reports the error, and no step is executed
C13_Witness ==
    /\ pc = "done"
    /\ mapping_table.returned = "DataFrame"
    /\ Len(mapping_table.rows) = 1
    /\ semrush_table.returned = "DataFrame"
    /\ Len(sf_file.rows) = 1
    /\ sf_file.rows[1]["percent"] = sAbc
    /\ sf_issues.returned = "None"
    /\ reported = <<[message |-> "Error loading Screaming Frog issues",
                     error |-> "ValueError"]>>
    /\ steps = <<>>

----------------------------------------------------------------------------
(* Category expansion applied to its own output *)

\* process_semrush_categories(expanded_rows): the expansion of the table the
\* first call returned
ExpandExpanded ==
    /\ pc = "done"
    /\ pc' = "repeated"
    /\ df' = expanded_rows
    /\ expanded_rows' = process_semrush_categories(expanded_rows)
    /\ UNCHANGED <<semrush_data, urlVars, statsVars, displayVars, chartVars, loadVars,
                   crawlVars>>

NextExpandTwice == ExpandCategories \/ ExpandExpanded

SpecExpandTwice == InitExpand /\ [][NextExpandTwice]_vars

\* C17: the expansion of an expanded table (df, after the second call, is
\* the table the first call returned) is that table: the same rows in the
\* same order.
C17_Idempotence ==
    pc = "repeated" => expanded_rows = df

----------------------------------------------------------------------------
(* The reconciliation operations and the tables passed to them             *)

(* The rows of a table are objects: heap is the sequence of the row        *)
(* objects that exist, and the rows of the table passed in are its first   *)
(* entries.  A view of a row is the row object itself; a copy is a new     *)
(* object with the same cells.                                             *)

\* an assignment new_row = row that copies nothing
Alias(heap, at) == [heap |-> heap, at |-> at]

\* row.copy() (data_loader.py:18): a new object with the cells of the row
copy(heap, at) == [heap |-> Append(heap, heap[at]), at |-> Len(heap) + 1]

\* the row df.iterrows() yields for row i of the table: a view of the
\* table's row or a copy of it, depending on the dtypes and the pandas build
iterrows(heap, i, view) == IF view THEN [heap |-> heap, at |-> i] ELSE copy(heap, i)

\* lines 16-20: one new row per kept category, written after it is copied
RECURSIVE AppendCategories(_, _, _, _, _)
AppendCategories(heap, at, kept, j, out) ==
    IF j > Len(kept) THEN [heap |-> heap, out |-> out]
    ELSE LET new_row == copy(heap, at)
         IN  AppendCategories([new_row.heap EXCEPT ![new_row.at].category = kept[j]],
                              at, kept, j + 1, Append(out, new_row.at))

\* lines 12-22 on the row objects: the table as the call leaves it, and the
\* rows of the frame built from expanded_rows
RECURSIVE ExpandInHeap(_, _, _, _, _)
ExpandInHeap(heap, n, i, view, out) ==
    IF i > n
    THEN [frame |-> SubSeq(heap, 1, n), rows |-> [k \in 1..Len(out) |-> heap[out[k]]]]
    ELSE LET row  == iterrows(heap, i, view)
             cell == row.heap[row.at].category
         IN  IF notna(cell) /\ cell # NA
             THEN LET kept == SelectSeq(CellCategories(cell),
                                        LAMBDA category :
                                            category # <<>> /\ category # Uncategorized)
                      done == AppendCategories(row.heap, row.at, kept, 1, out)
                  IN  ExpandInHeap(done.heap, n, i + 1, view, done.out)
             ELSE ExpandInHeap(row.heap, n, i + 1, view, out)

\* filter_semrush_data (semrush_tab.py:41-48; main.py:117-125): filters is
\* [categories, types], each a set of selected values
filter_semrush_data(rows, filters) ==
    LET by_category == IF filters.categories # {}
                       THEN SelectSeq(rows, LAMBDA r : isin(r.category, filters.categories))
                       ELSE rows
    IN  IF filters.types # {}
        THEN SelectSeq(by_category, LAMBDA r : isin(r.type, filters.types))
        ELSE by_category

\* filter_sf_data (sf_tab.py:40-52; main.py:304-312): filters is
\* [priorities, types]
filter_sf_data(rows, filters) ==
    LET by_priority == IF filters.priorities # {}
                       THEN SelectSeq(rows, LAMBDA r : isin(r["priority"], filters.priorities))
                       ELSE rows
    IN  IF filters.types # {}
        THEN SelectSeq(by_priority, LAMBDA r : isin(r["type"], filters.types))
        ELSE by_priority

sLow == <<"L", "o", "w">>

\* a loaded target-tool audit: a High and a Low issue
SfAudit ==
    [returned |-> "DataFrame", columns |-> SfColumns,
     rows |-> <<[name |-> nab, type |-> sIssue, priority |-> sHigh,
                 percent |-> ValueOf(<<"1", "2", ".", "5">>)],
                [name |-> nc, type |-> Uncategorized, priority |-> sLow,
                 percent |-> Null]>>]

\* loaded mapping tables of at most MaxRows rows
ReconcileRows ==
    [name : {nab, nc}, type : {TypeError}, category : {cLinks, cBoth},
     sf_name : {nc, NA}]

InitReconcile ==
    /\ pc = "start"
    /\ df \in SeqsUpTo(ReconcileRows, MaxRows)
    /\ expanded_rows = <<>>
    /\ semrush_data = FullAudit
    /\ sf_issues = SfAudit
    /\ derived = NoView
    /\ MAPPING_FILE = NoFile /\ semrush_file = NoFile /\ sf_file = NoFile
    /\ mapping_table = NotLoaded /\ semrush_table = NotLoaded
    /\ reported = <<>> /\ escaped = "none" /\ steps = <<>>
    /\ matched_issues = <<>> /\ metrics = NoMetrics
    /\ crawl_id = "" /\ output_folder = "" /\ status_file = <<>> /\ writes = <<>>
    /\ process = NoProcess /\ raised = "none"
    /\ IdleUrls /\ IdleStats /\ IdleDisplay /\ IdleChart /\ IdleSession

restVars == <<pc, urlVars, statsVars, displayVars, chartVars, MAPPING_FILE,
              semrush_file, sf_file, mapping_table, semrush_table, reported, escaped,
              steps, matched_issues, metrics, crawl_id, output_folder, status_file,
              writes, process, raised, sessionVars>>

\* semrush_issues = process_semrush_categories(mapping_data)
ReconcileExpand ==
    /\ \E view \in BOOLEAN :
          LET call == ExpandInHeap(df, Len(df), 1, view, <<>>)
          IN  /\ df' = call.frame
              /\ expanded_rows' = call.rows
              /\ derived' = [operation |-> "process_semrush_categories",
                             view |-> call.rows]
    /\ UNCHANGED <<semrush_data, sf_issues, restVars>>

ReconcileFilterSemrush ==
    /\ expanded_rows # <<>>
    /\ \E filters \in [categories : {{}, {cLinks}}, types : {{}, {TypeError}}] :
          derived' = [operation |-> "filter_semrush_data",
                      view |-> filter_semrush_data(expanded_rows, filters)]
    /\ UNCHANGED <<df, expanded_rows, semrush_data, sf_issues, restVars>>

ReconcileFilterSf ==
    /\ \E filters \in [priorities : {{}, {sHigh}}, types : {{}, {sIssue}}] :
          derived' = [operation |-> "filter_sf_data",
                      view |-> filter_sf_data(sf_issues.rows, filters)]
    /\ UNCHANGED <<df, expanded_rows, semrush_data, sf_issues, restVars>>

ReconcileUrls ==
    /\ \E name \in IssueNames :
          derived' = [operation |-> "get_affected_urls_by_issue",
                      view |-> get_affected_urls_by_issue(name, semrush_data)]
    /\ UNCHANGED <<df, expanded_rows, semrush_data, sf_issues, restVars>>

ReconcileStats ==
    /\ \E category \in {expanded_rows[i].category : i \in 1..Len(expanded_rows)} :
          derived' = [operation |-> "get_category_stats",
                      view |-> get_category_stats(
                                   SelectSeq(expanded_rows,
                                             LAMBDA r : r.category = category),
                                   semrush_data)]
    /\ UNCHANGED <<df, expanded_rows, semrush_data, sf_issues, restVars>>

ReconcileChart ==
    /\ \E types \in {NoFilter, [given |-> TRUE, values |-> {TypeError}]} :
          LET filtered == FilterMapping(df, types, NoFilter)
              entries  == IssueToColumnsFrom(df, filtered, semrush_data, NoFilter, 1, <<>>)
          IN  derived' = [operation |-> "create_issues_stats_chart",
                          view |-> IssueStats(entries, semrush_data)]
    /\ UNCHANGED <<df, expanded_rows, semrush_data, sf_issues, restVars>>

ReconcileMatched ==
    /\ derived' = [operation |-> "get_matched_issues", view |-> get_matched_issues(df)]
    /\ UNCHANGED <<df, expanded_rows, semrush_data, sf_issues, restVars>>

NextReconcile ==
    \/ ReconcileExpand \/ ReconcileFilterSemrush \/ ReconcileFilterSf \/ ReconcileUrls
    \/ ReconcileStats \/ ReconcileChart \/ ReconcileMatched

SpecReconcile == InitReconcile /\ [][NextReconcile]_vars

\* C18: no reconciliation operation changes the mapping table, the source
\* audit or the target audit passed to it.
C18_InputsUnchanged ==
    [][df' = df /\ semrush_data' = semrush_data /\ sf_issues' = sf_issues]_vars

\* the expansion wrote the categories "L" and "C" into the rows it returned,
\* and the row it was given still holds "L, C"
C18_Witness ==
    /\ derived.operation = "process_semrush_categories"
    /\ Len(df) = 1
    /\ df[1].category = cBoth
    /\ Len(expanded_rows) = 2
    /\ expanded_rows[1].category = cLinks
    /\ expanded_rows[2].category = cCrawl

----------------------------------------------------------------------------
(* The crawl launcher: utils/sf_crawler.py, SFCrawler.run_sf_with_status   *)

(* pc is the position of the launcher thread: "call" at entry, "try"       *)
(* before Popen, "stdout" and "stderr" in the two reading loops, "wait" at *)
(* process.wait(), "check" at the test of the return code, "except" in the *)
(* handler, "returned" after the return, "propagated" if an exception left *)
(* the method.  update_status replaces the content of the status file; the *)
(* caller has created the output folder (semrush_tab.py:131).  The process *)
(* has process.stdout lines to print on its standard output and            *)
(* process.stderr lines on its standard error, in any order; each goes     *)
(* through a pipe (stdout=PIPE, stderr=PIPE) that holds PipeCapacity lines *)
(* the launcher has not read yet, and a process that prints into a full    *)
(* pipe waits.  The process exits when it has printed all its lines.       *)

\* lines the external process prints at most on each of its two outputs
MaxLines == 2

\* lines a pipe holds before a write to it blocks (the pipe buffer)
PipeCapacity == 1

\* values of datetime.now().strftime("%H:%M:%S")
Clock == {"10:00:00", "10:00:05"}

\* exit codes of the external process
ReturnCodes == {0, 1, 2}

\* the record written at entry (lines 139-142)
RunningRecord(now) == [status |-> "running", start_time |-> now]

\* a completed record that leaves out the output folder
CompletedWithoutFolder(now, folder) == [status |-> "completed", end_time |-> now]

\* the record written after exit code 0 (lines 164-168)
CompletedRecord(now, folder) ==
    [status |-> "completed", end_time |-> now, output_folder |-> folder]

FailedRecord == [status |-> "failed"]
ErrorRecord == [status |-> "error"]

\* a test that takes every exit code for a success
AnyReturnCode(returncode) == TRUE

\* process.returncode == 0 (line 160)
Succeeded(returncode) == returncode = 0

\* except Exception (line 174): the exceptions Popen and the reading loops
\* raise are all caught
LauncherCatches(exception) == exception \in {"FileNotFoundError", "UnicodeDecodeError"}

\* update_status(new_status) (lines 132-136)
update_status(new_status) ==
    /\ status_file' = <<new_status>>
    /\ writes' = Append(writes, new_status)

crawlRest == <<df, expanded_rows, semrush_data, urlVars, statsVars, displayVars,
               chartVars, loadVars, derived, sessionVars>>

InitCrawl ==
    /\ pc = "call"
    /\ \E n \in {"links_ab_1", "crawlability_c_2"} :
          /\ crawl_id = n
          /\ output_folder \in {"crawls/crawl_links_ab_1", "crawls/crawl_crawlability_c_2"}
    /\ status_file = <<>>
    /\ writes = <<>>
    /\ process = NoProcess
    /\ raised = "none"
    /\ derived = NoView
    /\ semrush_data = EmptyAudit
    /\ IdleExpand /\ IdleUrls /\ IdleStats /\ IdleDisplay /\ IdleChart /\ IdleLoad
    /\ IdleSession

\* lines 139-142: the status file is initialised before the try block
WriteRunning ==
    /\ pc = "call"
    /\ pc' = "try"
    /\ \E now \in Clock : update_status(RunningRecord(now))
    /\ UNCHANGED <<crawl_id, output_folder, process, raised, crawlRest>>

\* line 148: subprocess.Popen starts the process, or raises (the program
\* is not at sf_path)
Popen ==
    /\ pc = "try"
    /\ \/ /\ pc' = "stdout"
          /\ \E out \in 0..MaxLines : \E err \in 0..MaxLines :
                process' = [process EXCEPT !.state = "running", !.stdout = out,
                                           !.stderr = err]
          /\ UNCHANGED raised
       \/ /\ pc' = "except"
          /\ raised' = "FileNotFoundError"
          /\ UNCHANGED process
    /\ UNCHANGED <<crawl_id, output_folder, status_file, writes, crawlRest>>

\* the external process prints a line on its standard output
ProcessPrints ==
    /\ process.state = "running"
    /\ process.printed < process.stdout
    /\ process.printed - process.read < PipeCapacity
    /\ process' = [process EXCEPT !.printed = @ + 1]
    /\ UNCHANGED <<pc, crawl_id, output_folder, status_file, writes, raised, crawlRest>>

\* the external process prints a line on its standard error
ProcessPrintsError ==
    /\ process.state = "running"
    /\ process.stderr_printed < process.stderr
    /\ process.stderr_printed - process.stderr_read < PipeCapacity
    /\ process' = [process EXCEPT !.stderr_printed = @ + 1]
    /\ UNCHANGED <<pc, crawl_id, output_folder, status_file, writes, raised, crawlRest>>

\* the external process has printed its lines and exits with some code,
\* closing its pipes
ProcessExits ==
    /\ process.state = "running"
    /\ process.printed = process.stdout
    /\ process.stderr_printed = process.stderr
    /\ \E code \in ReturnCodes :
          process' = [process EXCEPT !.state = "exited", !.returncode = code]
    /\ UNCHANGED <<pc, crawl_id, output_folder, status_file, writes, raised, crawlRest>>

\* lines 150-152: the loop reads a printed line, fails to decode it, or
\* ends at the end of the output
ReadStdout ==
    /\ pc = "stdout"
    /\ \/ /\ process.read < process.printed
          /\ \/ /\ process' = [process EXCEPT !.read = @ + 1]
                /\ UNCHANGED <<pc, raised>>
             \/ /\ pc' = "except"
                /\ raised' = "UnicodeDecodeError"
                /\ UNCHANGED process
       \/ /\ process.read = process.printed
          /\ process.state = "exited"
          /\ pc' = "stderr"
          /\ UNCHANGED <<process, raised>>
    /\ UNCHANGED <<crawl_id, output_folder, status_file, writes, crawlRest>>

\* lines 154-156: the loop over the error output reads a line, fails to
\* decode it, or ends at the end of the error output
ReadStderr ==
    /\ pc = "stderr"
    /\ \/ /\ process.stderr_read < process.stderr_printed
          /\ \/ /\ process' = [process EXCEPT !.stderr_read = @ + 1]
                /\ UNCHANGED <<pc, raised>>
             \/ /\ pc' = "except"
                /\ raised' = "UnicodeDecodeError"
                /\ UNCHANGED process
       \/ /\ process.stderr_read = process.stderr_printed
          /\ process.state = "exited"
          /\ pc' = "wait"
          /\ UNCHANGED <<process, raised>>
    /\ UNCHANGED <<crawl_id, output_folder, status_file, writes, crawlRest>>

\* line 158: process.wait() returns once the process has exited
Wait ==
    /\ pc = "wait"
    /\ process.state = "exited"
    /\ pc' = "check"
    /\ UNCHANGED <<crawl_id, output_folder, status_file, writes, process, raised,
                   crawlRest>>

\* lines 160-172: the terminal record of a process that exited
WriteOutcome ==
    /\ pc = "check"
    /\ pc' = "returned"
    /\ IF Succeeded(process.returncode)
       THEN \E now \in Clock : update_status(CompletedRecord(now, output_folder))
       ELSE update_status(FailedRecord)
    /\ UNCHANGED <<crawl_id, output_folder, process, raised, crawlRest>>

\* lines 174-176: the handler writes the error record; an exception it does
\* not catch leaves the method
Except ==
    /\ pc = "except"
    /\ IF LauncherCatches(raised)
       THEN /\ pc' = "returned"
            /\ update_status(ErrorRecord)
       ELSE /\ pc' = "propagated"
            /\ UNCHANGED <<status_file, writes>>
    /\ UNCHANGED <<crawl_id, output_folder, process, raised, crawlRest>>

NextCrawl ==
    \/ WriteRunning \/ Popen \/ ProcessPrints \/ ProcessPrintsError \/ ProcessExits
    \/ ReadStdout \/ ReadStderr \/ Wait \/ WriteOutcome \/ Except

SpecCrawl == InitCrawl /\ [][NextCrawl]_vars

----------------------------------------------------------------------------
(* What the claims expect of the launcher *)

StatusValues == {"running", "completed", "failed", "error"}
Terminal == {"completed", "failed", "error"}

\* C19: every record written to the status file has a status among running,
\* completed, failed and error; a running record carries a start_time, a
\* completed record an end_time and the output_folder path; the status file
\* holds the latest record written.
C19_StatusRecordShape ==
    /\ \A k \in 1..Len(writes) :
          /\ "status" \in DOMAIN writes[k]
          /\ writes[k].status \in StatusValues
          /\ writes[k].status = "running" =>
                "start_time" \in DOMAIN writes[k] /\ writes[k].start_time \in Clock
          /\ writes[k].status = "completed" =>
                /\ "end_time" \in DOMAIN writes[k] /\ writes[k].end_time \in Clock
                /\ "output_folder" \in DOMAIN writes[k]
                /\ writes[k].output_folder = output_folder
    /\ status_file = IF writes = <<>> THEN <<>> ELSE <<writes[Len(writes)]>>

\* the launcher returned after writing a running and then a completed record
C19_Witness ==
    /\ pc = "returned"
    /\ Len(writes) = 2
    /\ writes[1].status = "running"
    /\ writes[2].status = "completed"
    /\ writes[2].output_folder = output_folder
    /\ status_file = <<writes[2]>>

\* C20: the first record written is the running record, written before the
\* process is started; then exactly one terminal record is written:
\* completed iff the process exited with code 0, failed iff it exited with
\* another code, error iff an exception was raised while launching or
\* running it; no running record follows a terminal one, and no exception
\* leaves the launcher.
C20_StatusOrdering ==
    /\ pc # "propagated"
    /\ process.state # "not started" => writes # <<>>
    /\ writes # <<>> => writes[1].status = "running"
    /\ \A k \in 2..Len(writes) : writes[k].status \in Terminal
    /\ Len(writes) <= 2
    /\ Len(writes) = 2 => pc = "returned"
    /\ pc = "returned" =>
          /\ Len(writes) = 2
          /\ writes[2].status = "completed" <=>
                (raised = "none" /\ process.state = "exited" /\ process.returncode = 0)
          /\ writes[2].status = "failed" <=>
                (raised = "none" /\ process.state = "exited" /\ process.returncode # 0)
          /\ writes[2].status = "error" <=> raised # "none"

\* the process printed a line and then exited with code 2 while the launcher
\* was reading: the launcher returned after writing running, then failed
C20_Witness ==
    /\ pc = "returned"
    /\ raised = "none"
    /\ process.state = "exited"
    /\ process.returncode = 2
    /\ process.read = 1
    /\ Len(writes) = 2
    /\ writes[1].status = "running"
    /\ writes[2].status = "failed"

----------------------------------------------------------------------------
(* The operator's session around one crawl: utils/ui/semrush_tab.py,       *)
(* display_crawl_controls and display_crawl_status, with the launcher      *)
(* threads it starts (utils/sf_crawler.py, run_sf_with_status)             *)

(* session.pc is the position of the script: "waiting" when the script has *)
(* ended and the page shows session.shown, "controls" at the Run button    *)
(* (line 133), "status" at the entry of display_crawl_status (line 56),    *)
(* "sleeping" in time.sleep(5) (line 81).  session.run and session.retry   *)
(* are the values the two buttons return in the current script run: a      *)
(* button returns True in the one run its click triggers.  A thread is at  *)
(* "call", in "dump" between the open and the close of update_status, at   *)
(* "try", "process" (the external process runs), "check", "except" or      *)
(* "returned".  The text of the status file is the sequence of the records *)
(* it holds: none after open("w"), one after a dump, a record followed by  *)
(* the tail of a longer one where two handles wrote over each other.       *)

\* launcher threads one session starts at most
MaxLaunches == 2

\* sf_crawler.config_folder holds the configuration file or not
sConfig == <<"a", ".", "s", "e", "o", "s", "p", "i", "d", "e", "r", "c", "o", "n", "f", "i", "g">>
ConfigFolders == {{}, {sConfig}}

sTabs == <<"I", "n", "t", "e", "r", "n", "a", "l", ":", "A", "l", "l">>

\* the mapping tables of a session: no row of the issue, or its row with
\* the two optional cells sf_config_file and sf_export_tabs filled or not
SessionMappings ==
    {<<>>} \union
    {<<[name |-> nab, sf_config_file |-> c, sf_export_tabs |-> t]>> :
        c \in {Null, sConfig}, t \in {Null, sTabs}}

\* len(json.dumps(record)), the folder name counted as ten characters
Size(record) ==
    IF record.status = "running" THEN 47
    ELSE IF record.status = "completed" THEN 76
    ELSE IF record.status = "failed" THEN 20
    ELSE 19

\* the longest record of a text
Longest(text) ==
    CHOOSE r \in {text[k] : k \in 1..Len(text)} :
       \A k \in 1..Len(text) : Size(text[k]) <= Size(r)

\* a handle opened before the text was written writes its record at
\* offset 0: what the text holds beyond the record stays
WriteOver(text, record) ==
    IF text = <<>> \/ Size(Longest(text)) <= Size(record) THEN <<record>>
    ELSE <<record, Longest(text)>>

\* json.load (line 65): a text of exactly one record parses
Parses(text) == Len(text) = 1

\* mapping_data[mapping_data["Issue Name Contains - SemRush"] == issue_name]
\* (line 142)
issue_row(rows, name) == SelectSeq(rows, LAMBDA row : row.name = name)

\* a test that finds every file
AlwaysExists(folder, file) == TRUE

\* config_file_path.exists() (line 151)
path_exists(folder, file) == file \in folder

\* a thread whose target has returned
Finished ==
    [pc |-> "returned", pending |-> RunningRecord("10:00:00"), after |-> "returned",
     orphan |-> FALSE, returncode |-> 0, raised |-> "none"]

\* a thread that runs the launcher to its end inside the start call
thread_run(command) == Finished

\* threading.Thread(target=run_sf_with_status, ...).start() (lines 171-176):
\* a new thread at the entry of the launcher
thread_start(command) == [Finished EXCEPT !.pc = "call", !.after = "call"]

InitSession ==
    /\ pc = "session"
    /\ session = [pc |-> "waiting", run |-> FALSE, retry |-> FALSE, shown |-> "nothing"]
    /\ threads = <<>>
    /\ disk = NoStatusFile
    /\ config_folder \in ConfigFolders
    /\ session_state = [show_filters |-> TRUE]
    /\ mapping_data \in SessionMappings
    /\ issue_name = nab
    /\ affected_urls = <<>> /\ previous_urls = <<>>
    /\ crawl_id = "links_ab_1"
    /\ output_folder = "crawls/crawl_links_ab_1"
    /\ status_file = <<>> /\ writes = <<>> /\ process = NoProcess /\ raised = "none"
    /\ derived = NoView
    /\ semrush_data = EmptyAudit
    /\ filtered_types = NoFilter /\ filtered_categories = NoFilter
    /\ filtered_mapping = <<>> /\ issue_stats = <<>> /\ fig = Unset
    /\ IdleExpand /\ IdleStats /\ IdleDisplay /\ IdleLoad

sessionRest == <<pc, df, expanded_rows, semrush_data, urlVars, statsVars, displayVars,
                 chartVars, loadVars, derived, crawl_id, output_folder, status_file,
                 writes, process, raised, config_folder, session_state>>

\* the operator presses Run: the script runs again, interrupting the sleep
\* of a run that polls
ClickRun ==
    /\ session.pc \in {"waiting", "sleeping"}
    /\ Len(threads) < MaxLaunches
    /\ session' = [session EXCEPT !.pc = "controls", !.run = TRUE, !.retry = FALSE]
    /\ UNCHANGED <<threads, disk, sessionRest>>

\* the operator presses the Retry button the page shows
ClickRetry ==
    /\ session.pc = "waiting"
    /\ session.shown \in {"failed", "error"}
    /\ session' = [session EXCEPT !.pc = "controls", !.run = FALSE, !.retry = TRUE]
    /\ UNCHANGED <<threads, disk, sessionRest>>

\* the operator touches another widget of the page
Rerender ==
    /\ session.pc \in {"waiting", "sleeping"}
    /\ session' = [session EXCEPT !.pc = "controls", !.run = FALSE, !.retry = FALSE]
    /\ UNCHANGED <<threads, disk, sessionRest>>

\* display_crawl_controls, lines 126-181, up to the call of
\* display_crawl_status: with the Run button pressed, the mapping row and
\* the configuration file are looked up and the thread is started
Controls ==
    /\ session.pc = "controls"
    /\ IF ~session.run
       THEN /\ session' = [session EXCEPT !.pc = "status"]
            /\ UNCHANGED threads
       ELSE IF issue_row(mapping_data, issue_name) = <<>>
       THEN /\ session' = [session EXCEPT !.pc = "waiting", !.run = FALSE,
                                          !.shown = "No Screaming Frog config found"]
            /\ UNCHANGED threads
       ELSE IF issue_row(mapping_data, issue_name)[1].sf_config_file = Null
       THEN /\ session' = [session EXCEPT !.pc = "waiting", !.run = FALSE,
                                          !.shown = "TypeError"]
            /\ UNCHANGED threads
       ELSE IF ~path_exists(config_folder, issue_row(mapping_data, issue_name)[1].sf_config_file)
       THEN /\ session' = [session EXCEPT !.pc = "waiting", !.run = FALSE,
                                          !.shown = "Config file not found"]
            /\ UNCHANGED threads
       ELSE IF issue_row(mapping_data, issue_name)[1].sf_export_tabs = Null
       THEN \* line 148: NaN or "Internal:All" is NaN; line 168 joins the
            \* command, which holds it
            /\ session' = [session EXCEPT !.pc = "waiting", !.run = FALSE,
                                          !.shown = "TypeError"]
            /\ UNCHANGED threads
       ELSE /\ threads' = Append(threads, thread_start(crawl_id))
            /\ session' = [session EXCEPT !.pc = "controls", !.run = FALSE]
    /\ UNCHANGED <<disk, sessionRest>>

\* the threads that hold the status file open
Writers == {i \in 1..Len(threads) : threads[i].pc = "dump" /\ ~threads[i].orphan}

\* status_file.unlink(missing_ok=True) (line 118) where the file is removed:
\* what a thread that holds it open writes afterwards is lost
unlink ==
    /\ disk' = NoStatusFile
    /\ threads' = [i \in 1..Len(threads) |->
                     IF i \in Writers THEN [threads[i] EXCEPT !.orphan = TRUE]
                     ELSE threads[i]]

\* display_crawl_status, lines 56-119, up to the sleep
ReadStatus ==
    /\ session.pc = "status"
    /\ IF ~disk.exists
       THEN /\ session' = [session EXCEPT !.pc = "waiting", !.retry = FALSE,
                                          !.shown = "No status found"]
            /\ UNCHANGED <<threads, disk>>
       ELSE IF ~Parses(disk.text)
       THEN /\ session' = [session EXCEPT !.pc = "waiting", !.retry = FALSE,
                                          !.shown = "JSONDecodeError"]
            /\ UNCHANGED <<threads, disk>>
       ELSE IF disk.text[1].status = "running"
       THEN /\ session' = [session EXCEPT !.pc = "sleeping", !.retry = FALSE,
                                          !.shown = "running"]
            /\ UNCHANGED <<threads, disk>>
       ELSE IF disk.text[1].status = "completed"
       THEN /\ session' = [session EXCEPT !.pc = "waiting", !.retry = FALSE,
                                          !.shown = "completed"]
            /\ UNCHANGED <<threads, disk>>
       ELSE IF ~session.retry
       THEN /\ session' = [session EXCEPT !.pc = "waiting",
                                          !.shown = disk.text[1].status]
            /\ UNCHANGED <<threads, disk>>
       ELSE \* lines 117-119: the file is removed and the script runs again,
            \* or the removal of a file a thread holds open is refused
            \/ /\ unlink
               /\ session' = [session EXCEPT !.pc = "controls", !.retry = FALSE,
                                             !.shown = disk.text[1].status]
            \/ /\ Writers # {}
               /\ session' = [session EXCEPT !.pc = "waiting", !.retry = FALSE,
                                             !.shown = "PermissionError"]
               /\ UNCHANGED <<threads, disk>>
    /\ UNCHANGED sessionRest

\* lines 81-82: the sleep ends and st.rerun() runs the script again
Timer ==
    /\ session.pc = "sleeping"
    /\ session' = [session EXCEPT !.pc = "controls"]
    /\ UNCHANGED <<threads, disk, sessionRest>>

\* the record a thread writes next: the running record at entry, the
\* outcome after the exit of the process, the error record in the handler
NextRecord(thread, now) ==
    IF thread.pc = "call" THEN RunningRecord(now)
    ELSE IF thread.pc = "except" THEN ErrorRecord
    ELSE IF Succeeded(thread.returncode) THEN CompletedRecord(now, output_folder)
    ELSE FailedRecord

\* update_status, line 134: status_file.open("w") creates or empties the file
OpenStatus(i) ==
    /\ threads[i].pc \in {"call", "check", "except"}
    /\ \E now \in Clock :
          threads' = [threads EXCEPT ![i] =
                        [@ EXCEPT !.pc = "dump", !.orphan = FALSE,
                                  !.pending = NextRecord(threads[i], now),
                                  !.after = IF threads[i].pc = "call" THEN "try"
                                            ELSE "returned"]]
    /\ disk' = [exists |-> TRUE, text |-> <<>>]
    /\ UNCHANGED <<session, sessionRest>>

\* update_status, lines 135-136: the record reaches the file when the with
\* block closes it
DumpStatus(i) ==
    /\ threads[i].pc = "dump"
    /\ threads' = [threads EXCEPT ![i] =
                     IF threads[i].after = "returned" THEN Finished
                     ELSE [@ EXCEPT !.pc = threads[i].after, !.orphan = FALSE,
                                    !.pending = Finished.pending]]
    /\ disk' = IF threads[i].orphan THEN disk
               ELSE [disk EXCEPT !.text = WriteOver(disk.text, threads[i].pending)]
    /\ UNCHANGED <<session, sessionRest>>

\* line 148 in a thread: the process starts or Popen raises
ThreadPopen(i) ==
    /\ threads[i].pc = "try"
    /\ \/ threads' = [threads EXCEPT ![i] = [@ EXCEPT !.pc = "process"]]
       \/ threads' = [threads EXCEPT ![i] =
                        [@ EXCEPT !.pc = "except", !.raised = "FileNotFoundError"]]
    /\ UNCHANGED <<session, disk, sessionRest>>

\* lines 150-158 in a thread: the process exits with some code and the
\* thread has read its output, or a line of it does not decode
ThreadWait(i) ==
    /\ threads[i].pc = "process"
    /\ \/ \E code \in ReturnCodes :
             threads' = [threads EXCEPT ![i] =
                           [@ EXCEPT !.pc = "check", !.returncode = code]]
       \/ threads' = [threads EXCEPT ![i] =
                        [@ EXCEPT !.pc = "except", !.raised = "UnicodeDecodeError"]]
    /\ UNCHANGED <<session, disk, sessionRest>>

NextSession ==
    \/ ClickRun \/ ClickRetry \/ Rerender
    \/ Controls \/ ReadStatus \/ Timer
    \/ \E i \in 1..Len(threads) : OpenStatus(i)
    \/ \E i \in 1..Len(threads) : DumpStatus(i)
    \/ \E i \in 1..Len(threads) : ThreadPopen(i)
    \/ \E i \in 1..Len(threads) : ThreadWait(i)

SpecSession == InitSession /\ [][NextSession]_vars

----------------------------------------------------------------------------
(* What the claims expect of the session *)

\* the threads whose launcher has not returned
Active == {i \in 1..Len(threads) : threads[i].pc # "returned"}

\* the step of the script that starts a thread
Launches == Len(threads') = Len(threads) + 1

\* C21: the step of display_crawl_controls that launches a crawl starts one
\* thread at the entry of run_sf_with_status and runs the script again
\* without any step of the launcher having been taken (no status written,
\* no process started or awaited); and whenever the session comes to show a
\* crawl status, it is the status the status file holds at that moment.
C21_NonBlockingLaunch ==
    [][/\ Launches =>
             /\ threads'[Len(threads')].pc = "call"
             /\ \A i \in 1..Len(threads) : threads'[i] = threads[i]
             /\ disk' = disk
             /\ session'.pc = "controls" /\ ~session'.run
       /\ (session' # session /\ session.pc = "status"
             /\ session'.shown \in StatusValues) =>
             /\ disk.exists /\ Parses(disk.text)
             /\ session'.shown = disk.text[1].status]_vars

\* the script ran again after a launch and shows the crawl as running while
\* the external process of that launch still runs
C21_Witness ==
    /\ Len(threads) = 1
    /\ threads[1].pc = "process"
    /\ session.pc = "sleeping"
    /\ session.shown = "running"

----------------------------------------------------------------------------
(* The crawl identifiers of a display pass: utils/ui/semrush_tab.py,       *)
(* display_crawl_controls as called from display_semrush_issues (line 258) *)

DecimalDigits == <<"0", "1", "2", "3", "4", "5", "6", "7", "8", "9">>

\* str(n) of a count
RECURSIVE str(_)
str(n) ==
    IF n < 10 THEN <<DecimalDigits[n + 1]>>
    ELSE str(n \div 10) \o <<DecimalDigits[(n % 10) + 1]>>

\* str(x).replace(" ", "_").lower() (lines 126-127)
safe(s) == lower([i \in 1..Len(s) |-> IF s[i] = " " THEN "_" ELSE s[i]])

\* an identifier that leaves out the ordinal
CrawlIdWithoutOrdinal(category, name, displayed_issue_count) ==
    safe(category) \o <<"_">> \o safe(name)

\* crawl_id (line 128)
CrawlId(category, name, displayed_issue_count) ==
    safe(category) \o <<"_">> \o safe(name) \o <<"_">> \o str(displayed_issue_count)

\* crawl_output under CRAWLS_DIR (line 130)
CrawlOutput(id) == <<"c", "r", "a", "w", "l", "_">> \o id

\* status_file (semrush_tab.py:56, sf_crawler.py:130)
StatusPath(id) ==
    CrawlOutput(id) \o <<"/">> \o id
        \o <<"_", "s", "t", "a", "t", "u", "s", ".", "j", "s", "o", "n">>

\* the expanded, filtered mapping rows of a pass whose issue names differ in
\* case only
InitCrawlIds ==
    /\ pc = "start"
    /\ filtered_semrush \in
          SeqsUpTo([name : {nab, nAB}, type : {TypeError},
                    category : {cLinks, cCrawl}], MaxRows)
    /\ semrush_data \in FlagAudits
    /\ rendered = <<>>
    /\ IdleExpand /\ IdleUrls /\ IdleStats /\ IdleChart /\ IdleLoad /\ IdleCrawl

SpecCrawlIds == InitCrawlIds /\ [][NextDisplay]_vars

\* the cards of a pass as (entry, card) positions
Cards ==
    {p \in (1..Len(rendered)) \X (1..MaxRows + 1) : p[2] <= Len(rendered[p[1]].cards)}

\* the crawl identifier display_crawl_controls builds for a card
CrawlIdOf(p) ==
    CrawlId(rendered[p[1]].category, rendered[p[1]].cards[p[2]].issue_name,
            rendered[p[1]].cards[p[2]].ordinal)

MissingConfig ==
    \/ \A k \in 1..Len(mapping_data) : mapping_data[k].name # issue_name
    \/ \E k \in 1..Len(mapping_data) :
          /\ mapping_data[k].name = issue_name
          /\ mapping_data[k].sf_config_file # Null
          /\ mapping_data[k].sf_config_file \notin config_folder

\* C25: when the operator requests a crawl for an issue without a mapping
\* row or whose configuration file does not exist, the script reports an
\* error and ends; no thread is started and no status record is written.
C25_MissingConfig ==
    [][MissingConfig =>
          /\ threads' = <<>>
          /\ ~disk'.exists
          /\ (session.pc = "controls" /\ session.run /\ session' # session) =>
                /\ session'.pc = "waiting"
                /\ session'.shown \in {"No Screaming Frog config found",
                                       "Config file not found"}]_vars

\* the operator pressed Run for an issue whose configuration file is not in
\* the folder: the error is shown, nothing was started or written
C25_Witness ==
    /\ mapping_data # <<>>
    /\ config_folder = {}
    /\ session.pc = "waiting"
    /\ session.shown = "Config file not found"
    /\ threads = <<>>
    /\ ~disk.exists

\* C26: the status file is deleted only by the retry action, taken in a
\* script run that read failed or error from it; once deleted, the file
\* comes back only through the running record of a launch.
C26_RetryRecovery ==
    [][/\ (disk.exists /\ ~disk'.exists) =>
             /\ session.pc = "status" /\ session.retry
             /\ Parses(disk.text)
             /\ disk.text[1].status \in {"failed", "error"}
       /\ (~disk.exists /\ disk'.exists) =>
             \E i \in 1..Len(threads) :
                /\ threads[i].pc = "call"
                /\ threads'[i].pc = "dump"
                /\ threads'[i].pending.status = "running"]_vars

\* C27: every read of an existing status file by display_crawl_status
\* yields one complete record with a status field; the script never fails
\* while parsing the file.
C27_NoTornRead ==
    [][(session.pc = "status" /\ session' # session /\ disk.exists) =>
          /\ Parses(disk.text)
          /\ "status" \in DOMAIN disk.text[1]
          /\ session'.shown # "JSONDecodeError"]_vars

\* C28: at most one launcher is at work for the crawl identifier at a time,
\* and when a script run reads completed, failed or error, no external
\* process launched for the identifier is still running.
C28_OneCrawlPerId ==
    [][/\ Cardinality({i \in 1..Len(threads') : threads'[i].pc # "returned"}) <= 1
       /\ (session.pc = "status" /\ session' # session
             /\ session'.shown \in Terminal) =>
             \A i \in 1..Len(threads) : threads[i].pc # "process"]_vars

----------------------------------------------------------------------------
(* The session under its scheduling: a script that runs takes its next     *)
(* step, the sleep ends, a thread that can take a step takes it and the    *)
(* external process exits; the operator is free to do nothing.             *)

LauncherStep(i) ==
    /\ i <= Len(threads)
    /\ (OpenStatus(i) \/ DumpStatus(i) \/ ThreadPopen(i) \/ ThreadWait(i))

SpecSessionFair ==
    /\ SpecSession
    /\ WF_vars(Controls) /\ WF_vars(ReadStatus) /\ WF_vars(Timer)
    /\ \A i \in 1..MaxLaunches : WF_vars(LauncherStep(i))

\* the status file holds a terminal record and no launcher is at work
TerminalWritten ==
    /\ threads # <<>>
    /\ Active = {}
    /\ disk.exists /\ Parses(disk.text)
    /\ disk.text[1].status \in Terminal

\* C23: once the launcher of a crawl has written completed, failed or error,
\* the session eventually shows that status (it keeps re-reading the file on
\* its timer until then).
C23_CompletionObserved == TerminalWritten ~> (session.shown \in Terminal)

----------------------------------------------------------------------------
(* The launcher under its scheduling: the thread takes its next step when  *)
(* it can, and the process prints and exits when it can.                   *)

SpecCrawlFair ==
    /\ SpecCrawl
    /\ WF_vars(WriteRunning) /\ WF_vars(Popen) /\ WF_vars(ReadStdout)
    /\ WF_vars(ReadStderr) /\ WF_vars(Wait) /\ WF_vars(WriteOutcome)
    /\ WF_vars(Except)
    /\ WF_vars(ProcessPrints) /\ WF_vars(ProcessPrintsError) /\ WF_vars(ProcessExits)

\* C24: every invocation of run_sf_with_status eventually writes a terminal
\* status, whatever numbers of lines the process prints on its standard
\* output and its standard error.
C24_LauncherLiveness ==
    <>(status_file # <<>> /\ status_file[1].status \in Terminal)

----------------------------------------------------------------------------
(* The filters of the tabs: utils/ui/semrush_tab.py, apply_semrush_filters *)
(* and render_semrush_tab; utils/ui/sf_tab.py, apply_sf_filters; main.py,  *)
(* lines 92-125 and 284-312                                                *)

\* apply_semrush_filters (lines 20-38) and apply_sf_filters (lines 7-37):
\* the selections of the two multiselects when the filters are shown, two
\* empty lists when they are hidden
apply_filters(shown, selected) ==
    IF shown THEN selected ELSE [k \in DOMAIN selected |-> {}]

\* what the operator can select in the source-tool tab and the target-tool tab
SemrushSelections == [categories : {{}, {cLinks}}, types : {{}, {TypeError}}]
SfSelections == [priorities : {{}, {sHigh}}, types : {{}, {sIssue}}]

InitFilters ==
    /\ pc = "start"
    /\ df \in SeqsUpTo(ReconcileRows, MaxRows)
    /\ expanded_rows = process_semrush_categories(df)
    /\ semrush_data = FullAudit
    /\ sf_issues = SfAudit
    /\ derived = NoView
    /\ session_state \in [show_filters : BOOLEAN]
    /\ session = NoSession /\ threads = <<>> /\ disk = NoStatusFile
    /\ config_folder = {}
    /\ MAPPING_FILE = NoFile /\ semrush_file = NoFile /\ sf_file = NoFile
    /\ mapping_table = NotLoaded /\ semrush_table = NotLoaded
    /\ reported = <<>> /\ escaped = "none" /\ steps = <<>>
    /\ matched_issues = <<>> /\ metrics = NoMetrics
    /\ crawl_id = "" /\ output_folder = "" /\ status_file = <<>> /\ writes = <<>>
    /\ process = NoProcess /\ raised = "none"
    /\ IdleUrls /\ IdleStats /\ IdleDisplay /\ IdleChart

filterRest == <<pc, df, expanded_rows, semrush_data, sf_issues, urlVars, statsVars,
                displayVars, chartVars, MAPPING_FILE, semrush_file, sf_file,
                mapping_table, semrush_table, reported, escaped, matched_issues,
                metrics, crawl_id, output_folder, status_file, writes, process,
                raised, session, threads, disk, config_folder>>

\* the operator ticks or unticks Show Filters (main.py:70): the page is
\* drawn anew
ToggleFilters ==
    /\ session_state' = [show_filters |-> ~session_state.show_filters]
    /\ derived' = NoView
    /\ steps' = <<>>
    /\ UNCHANGED filterRest

\* render_semrush_tab, lines 271-274
RenderSemrushTab ==
    /\ \E selected \in SemrushSelections :
          derived' = [operation |-> "render_semrush_tab",
                      view |-> filter_semrush_data(expanded_rows,
                                   apply_filters(session_state.show_filters, selected))]
    /\ UNCHANGED <<session_state, steps, filterRest>>

\* render_sf_tab: apply_sf_filters, then filter_sf_data
RenderSfTab ==
    /\ \E selected \in SfSelections :
          derived' = [operation |-> "render_sf_tab",
                      view |-> filter_sf_data(sf_issues.rows,
                                   apply_filters(session_state.show_filters, selected))]
    /\ UNCHANGED <<session_state, steps, filterRest>>

\* the tabs of main (lines 84-402), drawn from the loaded tables with the
\* multiselects, where shown, left at their empty defaults
MainTabs ==
    /\ steps' = ReconciliationSteps(df, session_state.show_filters)
    /\ derived' = NoView
    /\ UNCHANGED <<session_state, filterRest>>

NextFilters == ToggleFilters \/ RenderSemrushTab \/ RenderSfTab \/ MainTabs

SpecFilters == InitFilters /\ [][NextFilters]_vars

\* the run of main raised at step k
Raises(run) == \E k \in 1..Len(run) : run[k] \in {"raise NameError", "raise KeyError",
                                                  "raise AttributeError"}

\* C29: with the show-filters flag off, the tabs are drawn without error
\* and from all the rows: the modular source-tool tab shows every expanded
\* mapping row, the modular target-tool tab every target-tool issue, and
\* the tabs of main are drawn to the end.
C29_HiddenFilters ==
    ~session_state.show_filters =>
        /\ derived.operation = "render_semrush_tab" => derived.view = expanded_rows
        /\ derived.operation = "render_sf_tab" => derived.view = sf_issues.rows
        /\ steps # <<>> => ~Raises(steps)

----------------------------------------------------------------------------
(* What the claims expect of the cards of a displayed category *)

\* the sum of the URL counts of the cards of an entry
RECURSIVE CardUrlsFrom(_, _)
CardUrlsFrom(cards, k) ==
    IF k > Len(cards) THEN 0
    ELSE Len(cards[k].urls) + CardUrlsFrom(cards, k + 1)

\* the total the label of an entry shows
LabelTotal(entry) == entry.stats.Issues + entry.stats.Warnings + entry.stats.Notices

\* the issue names of a category's slice that have attributed URLs
NamesWithUrls(category) ==
    {name \in NamesIn(RowsOfCategory(filtered_semrush, category)) :
        AttributedUrls(name, semrush_data) # <<>>}

\* the issue names on the cards of the entries before entry e
DisplayedBefore(e) ==
    {rendered[d].cards[k].issue_name :
        <<d, k>> \in {p \in Cards : p[1] < e}}

\* C30 as claimed: every displayed category holds at least one card, and the
\* URL counts of its cards add up to the total of its label.
C30_AsClaimed ==
    pc = "done" =>
        \A e \in 1..Len(rendered) :
            rendered[e].shown =>
                /\ Len(rendered[e].cards) >= 1
                /\ CardUrlsFrom(rendered[e].cards, 1) = LabelTotal(rendered[e])

\* C30: the cards of a displayed category are the issues of its slice with
\* affected URLs that no earlier category of the pass displayed, each once
\* and with its URLs; the total of its label counts every issue of its slice
\* with affected URLs.  The URL counts of the cards therefore add up to the
\* label total exactly when no issue of the category was displayed earlier,
\* and a displayed category is without cards exactly when all of them were.
C30_CategoryCards ==
    pc = "done" =>
        \A e \in 1..Len(rendered) :
            rendered[e].shown =>
                LET cards == rendered[e].cards
                    mine  == NamesWithUrls(rendered[e].category)
                    names == {cards[k].issue_name : k \in 1..Len(cards)}
                IN  /\ mine # {}
                    /\ names = mine \ DisplayedBefore(e)
                    /\ Cardinality(names) = Len(cards)
                    /\ \A k \in 1..Len(cards) :
                          cards[k].urls = AttributedUrls(cards[k].issue_name, semrush_data)
                    /\ LabelTotal(rendered[e]) = SumUrls(mine, semrush_data)
                    /\ CardUrlsFrom(cards, 1) = SumUrls(names, semrush_data)
                    /\ CardUrlsFrom(cards, 1) <= LabelTotal(rendered[e])
                    /\ (CardUrlsFrom(cards, 1) = LabelTotal(rendered[e]))
                          <=> (mine \cap DisplayedBefore(e) = {})
                    /\ (cards = <<>>) <=> (mine \subseteq DisplayedBefore(e))

\* "ab" is mapped to Crawlability and to Links: Crawlability, first in sorted
\* order, shows its card; Links is displayed with its URL count in the label
\* and without a card
C30_Witness ==
    /\ pc = "done"
    /\ Len(rendered) = 2
    /\ rendered[1].shown /\ rendered[2].shown
    /\ Len(rendered[1].cards) = 1
    /\ rendered[2].category = cLinks
    /\ rendered[2].cards = <<>>
    /\ LabelTotal(rendered[2]) > 0

====
